---- MODULE Spec2Model ----
(***************************************************************************)
(* Security and access-control layer of the inventory API:                 *)
(*   - RateLimitMiddleware     (app/core/middleware.py)                    *)
(*   - AuthenticationManager   (app/core/security.py)                      *)
(*   - AuthenticationMiddleware(app/core/security.py)                      *)
(*   - get_current_user        (app/core/dependencies.py)                  *)
(*   - RBAC engine and guards  (app/core/rbac.py)                          *)
(*   - auth / user / role endpoints (app/api/*.py)                         *)
(* Time is the wall clock in whole seconds (time.time(), utcnow()).        *)
(***************************************************************************)
EXTENDS Integers, Sequences, FiniteSets, TLC

VARIABLES
    now,             \* wall clock, seconds
    request_counts,  \* RateLimitMiddleware.request_counts: ip -> [count, timestamp]
    rq,              \* in-flight request slots of the rate-limit stage
    admitLog,        \* history: per ip, the times at which a request was passed downstream
    starts,          \* history: per ip, the timestamps at which an entry was created
    ticks,           \* number of clock advances taken in the session model
    users,           \* user store: id -> [is_active, role_id]
    roles,           \* role store: id -> role name
    issued,          \* tokens minted by AuthenticationManager so far
    last,            \* the last request handled and its response
    emitted,         \* audit events emitted by the last request
    created,         \* the last direct create_access_token call and its token
    verified,        \* the last verify_token call on that token
    mw,              \* the last request seen by AuthenticationMiddleware.dispatch
    environment,     \* settings.ENVIRONMENT
    pipe,            \* the last request served through a middleware stack
    accounts,        \* user store, credentials: id -> [username, email, hashed_password]
    areq,            \* body of the last request to /auth or /users, and expires_in returned
    pwcall,          \* the last direct verify_password call
    analysis,        \* the last analyze_password_strength call and its result
    proc,            \* the server process: its environment, .env file, phase and secret
    inflight,        \* per request task: position in the stack and the ids it emitted
    cid_ctx          \* per request task: the value of the ContextVar correlation_id

rateVars == <<request_counts, rq, admitLog, starts>>
sessVars == <<ticks, users, roles, issued, last, emitted>>
callVars == <<created, verified, mw>>
pipeVars == <<environment, pipe>>
acctVars == <<accounts, areq, pwcall, analysis>>
bootVars == <<proc>>
concVars == <<inflight, cid_ctx>>
vars == <<now, request_counts, rq, admitLog, starts,
          ticks, users, roles, issued, last, emitted, created, verified, mw,
          environment, pipe, accounts, areq, pwcall, analysis,
          proc, inflight, cid_ctx>>

(***************************************************************************)
(* Bounds of the model.                                                    *)
(***************************************************************************)
\* settings.RATE_LIMIT_PER_MINUTE is a configurable setting (ge=1); the model
\* runs with a small configured value.
RATE_LIMIT_PER_MINUTE == 2
MaxTime == 120
MaxSlots == 2

\* the 60 second window of RateLimitMiddleware.dispatch
WINDOW_SECONDS == 60

ClientIps == {"10.0.0.1", "unknown"}
Slots == 1..MaxSlots
RateDelays == {30, 60}

(***************************************************************************)
(* RateLimitMiddleware                                                     *)
(***************************************************************************)
\* variant whose window is twice as long as the retry_after of the 429
WindowStartTwoMinutes(current_time) == current_time - 2 * WINDOW_SECONDS

\* window_start = current_time - 60
WindowStart(current_time) == current_time - WINDOW_SECONDS

\* variant of the cleaning with the comparison inverted
CleanOldInverted(counts, window_start) ==
    [ip \in {i \in DOMAIN counts : counts[i].timestamp < window_start} |-> counts[ip]]

\* "Clean old entries": the dict comprehension over request_counts
CleanOld(counts, window_start) ==
    [ip \in {i \in DOMAIN counts : counts[i].timestamp > window_start} |-> counts[ip]]

\* off-by-one variant of the limit test (`>` for `>=`)
LimitReachedOffByOne(count_info) == count_info.count > RATE_LIMIT_PER_MINUTE

LimitReached(count_info) == count_info.count >= RATE_LIMIT_PER_MINUTE

\* variant in which the incremented value is computed but not stored
IncrementLost(count_info) == count_info

Incremented(count_info) == [count_info EXCEPT !.count = @ + 1]

\* variant in which a new entry does not count the request that creates it
FreshEntryCountsFromZero(current_time) == [count |-> 0, timestamp |-> current_time]

FreshEntry(current_time) == [count |-> 1, timestamp |-> current_time]

\* The synchronous part of dispatch, from reading the clock to just before
\* `await call_next(request)`: the new dictionary and whether the request is
\* passed downstream (TRUE) or answered with 429 (FALSE).
RateLimitDecision(counts, client_ip, current_time) ==
    LET window_start == WindowStart(current_time)
        cleaned == CleanOld(counts, window_start)
    IN  IF client_ip \in DOMAIN cleaned
        THEN IF cleaned[client_ip].timestamp > window_start
             THEN IF LimitReached(cleaned[client_ip])
                  THEN [counts |-> cleaned, admitted |-> FALSE, created |-> FALSE]
                  ELSE [counts |-> [cleaned EXCEPT ![client_ip] = Incremented(@)],
                        admitted |-> TRUE, created |-> FALSE]
             ELSE [counts |-> [cleaned EXCEPT ![client_ip] = FreshEntry(current_time)],
                   admitted |-> TRUE, created |-> TRUE]
        ELSE [counts |-> [ip \in DOMAIN cleaned \cup {client_ip} |->
                             IF ip = client_ip THEN FreshEntry(current_time)
                                               ELSE cleaned[ip]],
              admitted |-> TRUE, created |-> TRUE]

\* RateLimiter.get_remaining_requests(key): max(0, limit - count) within the
\* current window; the whole allowance when the key has no live entry
GetRemainingRequests(counts, key, current_time) ==
    IF key \notin DOMAIN counts \/ counts[key].timestamp <= WindowStart(current_time)
    THEN RATE_LIMIT_PER_MINUTE
    ELSE IF RATE_LIMIT_PER_MINUTE - counts[key].count > 0
    THEN RATE_LIMIT_PER_MINUTE - counts[key].count
    ELSE 0

IdleSlot == [pc |-> "idle", ip |-> "none", status |-> 0]

InitRate ==
    /\ request_counts = << >>
    /\ rq = [s \in Slots |-> IdleSlot]
    /\ admitLog = [ip \in ClientIps |-> << >>]
    /\ starts = [ip \in ClientIps |-> {}]

\* A request enters the stage on slot s. The code runs without a suspension
\* point up to call_next, so the decision is one step.
RateLimitDispatch(s, client_ip) ==
    /\ UNCHANGED pipeVars
    /\ UNCHANGED bootVars
    /\ UNCHANGED concVars
    /\ UNCHANGED acctVars
    /\ UNCHANGED sessVars
    /\ UNCHANGED callVars
    /\ rq[s].pc # "downstream"
    /\ LET d == RateLimitDecision(request_counts, client_ip, now)
       IN  /\ request_counts' = d.counts
           /\ rq' = [rq EXCEPT ![s] =
                        [pc |-> IF d.admitted THEN "downstream" ELSE "answered",
                         ip |-> client_ip,
                         status |-> IF d.admitted THEN 0 ELSE 429]]
           /\ admitLog' = IF d.admitted
                          THEN [admitLog EXCEPT ![client_ip] = Append(@, now)]
                          ELSE admitLog
           /\ starts' = IF d.created
                        THEN [starts EXCEPT ![client_ip] = @ \cup {now}]
                        ELSE starts
    /\ UNCHANGED now

\* `await call_next(request)` returns: the downstream stages answered.
CallNextReturns(s) ==
    /\ UNCHANGED pipeVars
    /\ UNCHANGED bootVars
    /\ UNCHANGED concVars
    /\ UNCHANGED acctVars
    /\ rq[s].pc = "downstream"
    /\ rq' = [rq EXCEPT ![s] = [@ EXCEPT !.pc = "answered", !.status = 200]]
    /\ UNCHANGED <<now, request_counts, admitLog, starts>>
    /\ UNCHANGED sessVars
    /\ UNCHANGED callVars

\* History older than one window can no longer change what happened inside
\* any window that is still open, so it is dropped as the clock advances.
Recent(times, t) == SelectSeq(times, LAMBDA x : x > t - WINDOW_SECONDS)

TickRate(d) ==
    /\ UNCHANGED pipeVars
    /\ UNCHANGED bootVars
    /\ UNCHANGED concVars
    /\ UNCHANGED acctVars
    /\ now + d <= MaxTime
    /\ now' = now + d
    /\ admitLog' = [ip \in ClientIps |-> Recent(admitLog[ip], now')]
    /\ starts' = [ip \in ClientIps |-> {x \in starts[ip] : x > now' - WINDOW_SECONDS}]
    /\ UNCHANGED <<request_counts, rq>>
    /\ UNCHANGED sessVars
    /\ UNCHANGED callVars

(***************************************************************************)
(* AuthenticationManager: tokens                                           *)
(***************************************************************************)
MaxTicks == 2
MaxIssued == 3

\* settings.ACCESS_TOKEN_EXPIRE_MINUTES and settings.REFRESH_TOKEN_EXPIRE_DAYS
ACCESS_TOKEN_EXPIRE_MINUTES == 30
REFRESH_TOKEN_EXPIRE_DAYS == 7

Minutes(n) == n * 60
Days(n) == n * 86400

UserIds == {1, 2}
RoleIds == {1, 2}
\* Python None for a string-valued claim; an Optional[int] or
\* Optional[timedelta] is << >> for None and <<n>> for the value n.
None == "None"
NoneOpt == << >>
Some(n) == <<n>>

\* str(user.id) and int(user_id_raw)
Str(id) == CASE id = 1 -> "1" [] id = 2 -> "2" [] id = 3 -> "3" [] OTHER -> "0"
IsIntLiteral(text) == text \in {"0", "1", "2", "3"}
ParseInt(text) == CASE text = "1" -> 1 [] text = "2" -> 2 [] text = "3" -> 3 [] OTHER -> 0

\* `if expires_delta:` -- None and timedelta(0) are both falsy
Truthy(expires_delta) == expires_delta # NoneOpt /\ expires_delta # Some(0)

\* jwt.encode with the configured secret: the claims, signed
Encode(to_encode) == [to_encode EXCEPT !.sig = TRUE]

CreateAccessToken(data, expires_delta, utcnow) ==
    LET expire == IF Truthy(expires_delta)
                  THEN utcnow + expires_delta[1]
                  ELSE utcnow + Minutes(ACCESS_TOKEN_EXPIRE_MINUTES)
    IN  Encode([data EXCEPT !.exp = expire, !.type = "access"])

CreateRefreshToken(data, utcnow) ==
    LET expire == utcnow + Days(REFRESH_TOKEN_EXPIRE_DAYS)
    IN  Encode([data EXCEPT !.exp = expire, !.type = "refresh"])

\* jwt.decode: ExpiredSignatureError once exp is reached
Expired(exp, utcnow) == exp <= utcnow

\* verify_token: the payload, or the 401 it raises
VerifyToken(token, utcnow) ==
    IF ~token.sig
    THEN [ok |-> FALSE, status |-> 401, detail |-> "Invalid token"]
    ELSE IF Expired(token.exp, utcnow)
    THEN [ok |-> FALSE, status |-> 401, detail |-> "Token has expired"]
    ELSE [ok |-> TRUE, status |-> 200, detail |-> "", payload |-> token]

\* data passed to the token constructors by login / register / refresh
AccessData(id, us) ==
    [sub |-> Str(id), role_id |-> us[id].role_id, exp |-> 0, type |-> None, sig |-> FALSE]
RefreshData(id) ==
    [sub |-> Str(id), role_id |-> NoneOpt, exp |-> 0, type |-> None, sig |-> FALSE]

\* Tokens a client can present without the server having minted them: a bad
\* signature, and tokens signed with the configured secret (the development
\* default of which is public) that lack a claim or carry a malformed one.
FarFuture == Days(REFRESH_TOKEN_EXPIRE_DAYS) * 4
CraftedTokens ==
    { [sub |-> "1", role_id |-> NoneOpt, exp |-> FarFuture, type |-> "access", sig |-> FALSE],
      [sub |-> "1", role_id |-> NoneOpt, exp |-> FarFuture, type |-> None, sig |-> TRUE],
      [sub |-> None, role_id |-> NoneOpt, exp |-> FarFuture, type |-> "refresh", sig |-> TRUE],
      [sub |-> "abc", role_id |-> NoneOpt, exp |-> FarFuture, type |-> "refresh", sig |-> TRUE] }

(***************************************************************************)
(* RBAC engine                                                             *)
(***************************************************************************)
PERMISSIONS ==
    { "users:read", "users:create", "users:update", "users:delete",
      "inventory:read", "inventory:create", "inventory:update", "inventory:delete",
      "inventory:export",
      "counts:read", "counts:create", "counts:update", "counts:delete", "counts:approve",
      "reports:read", "reports:create", "reports:export",
      "system:admin", "system:config",
      "locations:read", "locations:create", "locations:update", "locations:delete",
      "roles:read", "roles:create", "roles:update", "roles:delete" }

ROLE_PERMISSIONS ==
    [ admin |-> PERMISSIONS,
      manager |-> { "users:read",
                    "inventory:read", "inventory:create", "inventory:update",
                    "inventory:export",
                    "counts:read", "counts:create", "counts:update", "counts:approve",
                    "reports:read", "reports:create", "reports:export",
                    "locations:read",
                    "roles:read" },
      clerk |-> { "inventory:read",
                  "counts:read", "counts:create", "counts:update",
                  "reports:read" },
      viewer |-> { "inventory:read", "counts:read", "reports:read" } ]

\* variant that grants every known role the whole catalog
GetPermissionsForRoleWholeCatalog(role_name) ==
    IF role_name \notin DOMAIN ROLE_PERMISSIONS
    THEN {}
    ELSE PERMISSIONS

GetPermissionsForRole(role_name) ==
    IF role_name \notin DOMAIN ROLE_PERMISSIONS
    THEN {}
    ELSE ROLE_PERMISSIONS[role_name]

\* `if not user.role_id` -- None and 0 are both falsy
NoRoleId(role_id) == role_id = NoneOpt \/ role_id = Some(0)

\* variant that falls back to the viewer permissions when the role id does
\* not resolve
GetUserPermissionsDefaultViewer(user, rs) ==
    IF NoRoleId(user.role_id)
    THEN {}
    ELSE IF user.role_id[1] \notin DOMAIN rs
    THEN ROLE_PERMISSIONS["viewer"]
    ELSE GetPermissionsForRole(rs[user.role_id[1]])

GetUserPermissions(user, rs) ==
    IF NoRoleId(user.role_id)
    THEN {}
    ELSE IF user.role_id[1] \notin DOMAIN rs
    THEN {}
    ELSE GetPermissionsForRole(rs[user.role_id[1]])

HasPermission(user_permissions, required_permission) ==
    required_permission \in user_permissions

\* any(...) / all(...) over the list of required permissions
HasAnyPermission(user_permissions, required_permissions) ==
    \E i \in DOMAIN required_permissions : required_permissions[i] \in user_permissions

HasAllPermissions(user_permissions, required_permissions) ==
    \A i \in DOMAIN required_permissions : required_permissions[i] \in user_permissions

(***************************************************************************)
(* get_current_user and the permission guards                              *)
(***************************************************************************)
NoUser == [id |-> 0, is_active |-> FALSE, role_id |-> NoneOpt]
\* variant that answers with the role the account was seeded with (the role in
\* the claims of the tokens issued at its first login), not the stored one
UserOfSeededRole(id, us) == [id |-> id, is_active |-> us[id].is_active, role_id |-> Some(id)]

\* the User row session.get(User, id) returns
UserOf(id, us) == [id |-> id, is_active |-> us[id].is_active, role_id |-> us[id].role_id]

Unauthorized(detail) == [status |-> 401, detail |-> <<detail>>, user |-> NoUser]
Forbidden(detail) == [status |-> 403, detail |-> detail, user |-> NoUser]
Passed(user) == [status |-> 200, detail |-> << >>, user |-> user]

\* variant of get_current_user without the is_active test
GetCurrentUserNoActiveTest(token, us, utcnow) ==
    IF ~VerifyToken(token, utcnow).ok THEN Unauthorized("Invalid token")
    ELSE IF token.sub = None THEN Unauthorized("Invalid token")
    ELSE IF ~IsIntLiteral(token.sub) THEN Unauthorized("Invalid token")
    ELSE IF ParseInt(token.sub) \notin DOMAIN us THEN Unauthorized("User not found")
    ELSE Passed(UserOf(ParseInt(token.sub), us))

\* dependencies.get_current_user. Every HTTPException raised inside the try
\* block, verify_token's included, is re-raised as 401 "Invalid token".
GetCurrentUser(token, us, utcnow) ==
    IF ~VerifyToken(token, utcnow).ok THEN Unauthorized("Invalid token")
    ELSE IF token.sub = None THEN Unauthorized("Invalid token")
    ELSE IF ~IsIntLiteral(token.sub) THEN Unauthorized("Invalid token")
    ELSE IF ParseInt(token.sub) \notin DOMAIN us THEN Unauthorized("User not found")
    ELSE IF ~us[ParseInt(token.sub)].is_active THEN Unauthorized("User is inactive")
    ELSE Passed(UserOf(ParseInt(token.sub), us))

\* RBACDependencies.require_permission(permission)._require_permission
RequirePermission(permission, current_user, rs) ==
    IF ~HasPermission(GetUserPermissions(current_user, rs), permission)
    THEN Forbidden(<<"Access denied. Required permission: ", permission>>)
    ELSE Passed(current_user)

\* variant of the any-guard that tests with all(...)
RequireAnyPermissionTestsAll(permissions, current_user, rs) ==
    IF ~HasAllPermissions(GetUserPermissions(current_user, rs), permissions)
    THEN Forbidden(<<"Access denied. Required one of permissions: ">> \o permissions)
    ELSE Passed(current_user)

\* RBACDependencies.require_any_permission(permissions)._require_any_permission
RequireAnyPermission(permissions, current_user, rs) ==
    IF ~HasAnyPermission(GetUserPermissions(current_user, rs), permissions)
    THEN Forbidden(<<"Access denied. Required one of permissions: ">> \o permissions)
    ELSE Passed(current_user)

\* RBACDependencies.require_all_permissions(permissions)._require_all_permissions
RequireAllPermissions(permissions, current_user, rs) ==
    IF ~HasAllPermissions(GetUserPermissions(current_user, rs), permissions)
    THEN Forbidden(<<"Access denied. Required all permissions: ">> \o permissions)
    ELSE Passed(current_user)

\* A guard as FastAPI resolves it: Depends(get_current_user) first, then the
\* permission test on the user it returned.
Guard(kind, permissions, token, us, rs, utcnow) ==
    LET auth == GetCurrentUser(token, us, utcnow)
    IN  IF auth.status # 200 THEN auth
        ELSE CASE kind = "require_permission" ->
                    RequirePermission(permissions[1], auth.user, rs)
               [] kind = "require_any_permission" ->
                    RequireAnyPermission(permissions, auth.user, rs)
               [] OTHER ->
                    RequireAllPermissions(permissions, auth.user, rs)

(***************************************************************************)
(* Endpoints of app/api/auth.py and app/api/user.py                        *)
(***************************************************************************)
NoToken == [sub |-> None, role_id |-> NoneOpt, exp |-> 0, type |-> None, sig |-> FALSE]
\* A handled request: the operation, the bearer token presented, the time,
\* the response (status, detail, the user the dependency returned, the tokens
\* in the body), and for RBAC requests the permissions required / returned.
NoRequest == [op |-> "none", tok |-> NoToken, at |-> 0, status |-> 0,
              detail |-> << >>, user |-> NoUser, minted |-> {},
              required |-> << >>, granted |-> {}]
Response(op, tok, at, res, minted) ==
    [op |-> op, tok |-> tok, at |-> at, status |-> res.status,
     detail |-> res.detail, user |-> res.user, minted |-> minted,
     required |-> << >>, granted |-> {}]

\* SecurityUtils.create_audit_log(action, user_id, details): one event to the sink
AuditEvent(action, user_id) == [action |-> action, user_id |-> user_id]

Presentable == issued \cup CraftedTokens

InitSession ==
    /\ ticks = 0
    /\ users = [id \in UserIds |-> [is_active |-> TRUE, role_id |-> Some(id)]]
    /\ roles = (1 :> "admin" @@ 2 :> "clerk")
    /\ issued = {}
    /\ last = NoRequest
    /\ emitted = << >>

\* POST /auth/login for the account with the given id (looked up by username)
Login(id, password_ok) ==
    /\ UNCHANGED pipeVars
    /\ UNCHANGED bootVars
    /\ UNCHANGED concVars
    /\ UNCHANGED acctVars
    /\ Cardinality(issued) + 2 <= MaxIssued
    /\ IF id \notin DOMAIN users \/ ~password_ok
       THEN /\ last' = Response("login", NoToken, now,
                                Unauthorized("Invalid username or password"), {})
            /\ UNCHANGED issued /\ emitted' = << >>
       ELSE IF ~users[id].is_active
       THEN /\ last' = Response("login", NoToken, now,
                                Unauthorized("User account is inactive"), {})
            /\ UNCHANGED issued /\ emitted' = << >>
       ELSE LET access_token ==
                    CreateAccessToken(AccessData(id, users),
                                      Some(Minutes(ACCESS_TOKEN_EXPIRE_MINUTES)), now)
                refresh_token == CreateRefreshToken(RefreshData(id), now)
            IN  /\ issued' = issued \cup {access_token, refresh_token}
                /\ emitted' = <<AuditEvent("user_login", id)>>
                /\ last' = Response("login", NoToken, now, Passed(UserOf(id, users)),
                                    {access_token, refresh_token})
    /\ UNCHANGED <<now, ticks, users, roles>>
    /\ UNCHANGED rateVars
    /\ UNCHANGED callVars

\* variant of the refresh checks without the token type test
RefreshCheckNoTypeTest(token, us, utcnow) ==
    IF ~VerifyToken(token, utcnow).ok THEN Unauthorized("Invalid refresh token")
    ELSE IF token.sub = None \/ token.type = None
         THEN Unauthorized("Invalid refresh token")
    ELSE IF ~IsIntLiteral(token.sub) THEN Unauthorized("Invalid refresh token")
    ELSE IF ParseInt(token.sub) \notin DOMAIN us \/ ~us[ParseInt(token.sub)].is_active
         THEN Unauthorized("User not found or inactive")
    ELSE Passed(UserOf(ParseInt(token.sub), us))

\* The outcome of POST /auth/refresh before anything is minted
RefreshCheck(token, us, utcnow) ==
    IF ~VerifyToken(token, utcnow).ok THEN Unauthorized("Invalid refresh token")
    ELSE IF token.sub = None \/ token.type = None
         THEN Unauthorized("Invalid refresh token")
    ELSE IF ~IsIntLiteral(token.sub) THEN Unauthorized("Invalid refresh token")
    ELSE IF token.type # "refresh" THEN Unauthorized("Invalid refresh token")
    ELSE IF ParseInt(token.sub) \notin DOMAIN us \/ ~us[ParseInt(token.sub)].is_active
         THEN Unauthorized("User not found or inactive")
    ELSE Passed(UserOf(ParseInt(token.sub), us))

\* POST /auth/refresh
Refresh(token) ==
    /\ UNCHANGED pipeVars
    /\ UNCHANGED bootVars
    /\ UNCHANGED concVars
    /\ UNCHANGED acctVars
    /\ Cardinality(issued) + 1 <= MaxIssued
    /\ LET res == RefreshCheck(token, users, now)
       IN  IF res.status # 200
           THEN /\ last' = Response("refresh", token, now, res, {})
                /\ UNCHANGED issued /\ emitted' = << >>
           ELSE LET access_token ==
                        CreateAccessToken(AccessData(res.user.id, users),
                                          Some(Minutes(ACCESS_TOKEN_EXPIRE_MINUTES)), now)
                IN  /\ issued' = issued \cup {access_token}
                    /\ emitted' = <<AuditEvent("token_refreshed", res.user.id)>>
                    /\ last' = Response("refresh", token, now, res, {access_token})
    /\ UNCHANGED <<now, ticks, users, roles>>
    /\ UNCHANGED rateVars
    /\ UNCHANGED callVars

\* GET /auth/me and GET /auth/verify-token: Depends(get_current_user) only
Me(token) ==
    /\ UNCHANGED pipeVars
    /\ UNCHANGED bootVars
    /\ UNCHANGED concVars
    /\ UNCHANGED acctVars
    /\ last' = Response("me", token, now, GetCurrentUser(token, users, now), {})
    /\ emitted' = << >>
    /\ UNCHANGED <<now, ticks, users, roles, issued>>
    /\ UNCHANGED rateVars
    /\ UNCHANGED callVars

\* PUT /auth/profile with is_active given (the email is left alone)
UpdateProfile(token, is_active) ==
    /\ UNCHANGED pipeVars
    /\ UNCHANGED bootVars
    /\ UNCHANGED concVars
    /\ UNCHANGED acctVars
    /\ LET res == GetCurrentUser(token, users, now)
       IN  IF res.status # 200
           THEN /\ last' = Response("update_profile", token, now, res, {})
                /\ UNCHANGED users /\ emitted' = << >>
           ELSE /\ users' = [users EXCEPT ![res.user.id].is_active = is_active]
                /\ emitted' = <<AuditEvent("profile_updated", res.user.id)>>
                /\ last' = Response("update_profile", token, now,
                                    Passed(UserOf(res.user.id, users')), {})
    /\ UNCHANGED <<now, ticks, roles, issued>>
    /\ UNCHANGED rateVars
    /\ UNCHANGED callVars

NotFound(detail) == [status |-> 404, detail |-> <<detail>>, user |-> NoUser]
NoContent == [status |-> 204, detail |-> << >>, user |-> NoUser]

\* DELETE /users/{user_id}, guarded by require_permission("users:delete")
DeleteUser(token, user_id) ==
    /\ UNCHANGED pipeVars
    /\ UNCHANGED bootVars
    /\ UNCHANGED concVars
    /\ UNCHANGED acctVars
    /\ LET res == Guard("require_permission", <<"users:delete">>, token, users, roles, now)
       IN  IF res.status # 200
           THEN /\ last' = Response("delete_user", token, now, res, {})
                /\ UNCHANGED users
           ELSE IF user_id \notin DOMAIN users
           THEN /\ last' = Response("delete_user", token, now, NotFound("User not found"), {})
                /\ UNCHANGED users
           ELSE /\ users' = [id \in DOMAIN users \ {user_id} |-> users[id]]
                /\ last' = Response("delete_user", token, now, NoContent, {})
    /\ emitted' = << >>
    /\ UNCHANGED <<now, ticks, roles, issued>>
    /\ UNCHANGED rateVars
    /\ UNCHANGED callVars

AuthDelays == {Minutes(ACCESS_TOKEN_EXPIRE_MINUTES), Days(REFRESH_TOKEN_EXPIRE_DAYS)}

TickAuth(d) ==
    /\ UNCHANGED pipeVars
    /\ UNCHANGED bootVars
    /\ UNCHANGED concVars
    /\ UNCHANGED acctVars
    /\ ticks < MaxTicks
    /\ ticks' = ticks + 1
    /\ now' = now + d
    /\ UNCHANGED <<users, roles, issued, last, emitted>>
    /\ UNCHANGED rateVars
    /\ UNCHANGED callVars

(***************************************************************************)
(* Passwords and credentials                                               *)
(* (AuthenticationManager.hash_password / verify_password, app/api/auth.py)*)
(***************************************************************************)
\* request texts; a text stands for itself, its length is tabulated
Usernames == {"wsadmin", "clerk01", "newuser123", "  wsadmin  ", "ab"}
Passwords == {"SecurePassword123!", "OtherPassword456!", "password", "123"}
Emails == {"wsadmin@wingstop.com", "clerk01@wingstop.com", "new@example.com",
           "invalid-email"}

\* len(text)
TextLength(text) ==
    CASE text = "wsadmin" -> 7
      [] text = "clerk01" -> 7
      [] text = "newuser123" -> 10
      [] text = "  wsadmin  " -> 11
      [] text = "ab" -> 2
      [] text = "SecurePassword123!" -> 18
      [] text = "OtherPassword456!" -> 17
      [] text = "password" -> 8
      [] text = "123" -> 3
      [] OTHER -> 0

\* SecurityUtils.sanitize_input: surrounding whitespace is stripped
SanitizeInput(text) == IF text = "  wsadmin  " THEN "wsadmin" ELSE text

\* bcrypt.gensalt(): a fresh random salt per call
Salts == {1, 2}

\* hash_password: bcrypt.hashpw(password, salt); the hash carries its salt
HashPassword(password, salt) ==
    [scheme |-> "bcrypt", salt |-> salt, password |-> password]

\* a stored value that is no bcrypt hash ("invalid_hash")
MalformedHash == [scheme |-> "invalid_hash", salt |-> 0, password |-> ""]

StoredHashes ==
    {HashPassword(password, salt) :
        password \in {"SecurePassword123!", "OtherPassword456!"}, salt \in Salts}
      \cup {MalformedHash}

\* AuthenticationManager.verify_password: bcrypt.checkpw re-hashes the
\* password with the salt of the stored hash and compares; it raises
\* ValueError ("Invalid salt") when the stored value is no bcrypt hash, and
\* verify_password has no try block around it.
VerifyPassword(password, hashed_password) ==
    IF hashed_password.scheme # "bcrypt"
    THEN [raised |-> TRUE, result |-> FALSE]
    ELSE [raised |-> FALSE,
          result |-> HashPassword(password, hashed_password.salt) = hashed_password]

\* SecurityUtils.verify_password_with_salt: false for a malformed hash
VerifyPasswordWithSalt(password, hashed_password) ==
    IF hashed_password.scheme # "bcrypt"
    THEN [raised |-> FALSE, result |-> FALSE]
    ELSE [raised |-> FALSE,
          result |-> HashPassword(password, hashed_password.salt) = hashed_password]

\* the methods class AuthenticationManager defines
AuthenticationManagerMethods ==
    {"create_access_token", "create_refresh_token", "verify_token",
     "hash_password", "verify_password", "generate_api_key"}

\* responses of the account endpoints besides those of the guards
Unprocessable == [status |-> 422, detail |-> <<"validation error">>, user |-> NoUser]
BadRequest(detail) == [status |-> 400, detail |-> detail, user |-> NoUser]
\* an exception no handler catches: the server answers 500
ServerError == [status |-> 500, detail |-> <<"Internal Server Error">>, user |-> NoUser]
Created(user) == [status |-> 201, detail |-> << >>, user |-> user]

\* select(User).where(User.username == username).first()
UserIdByUsername(username, accts) ==
    IF \E id \in DOMAIN accts : accts[id].username = username
    THEN Some(CHOOSE id \in DOMAIN accts : accts[id].username = username)
    ELSE NoneOpt

\* select(User).where(User.email == email).first()
UserIdByEmail(email, accts) ==
    IF \E id \in DOMAIN accts : accts[id].email = email
    THEN Some(CHOOSE id \in DOMAIN accts : accts[id].email = email)
    ELSE NoneOpt

NoAccountRequest ==
    [username |-> "", email |-> "", password |-> "", new_password |-> "",
     role_id |-> NoneOpt, expires_in |-> 0]

NoPasswordCall ==
    [done |-> FALSE, password |-> "", hashed_password |-> MalformedHash,
     raised |-> FALSE, result |-> FALSE]

\* the two seeded accounts; their hashes were made by hash_password
\* no analyze_password_strength call yet
NoAnalysis ==
    [done |-> FALSE, password |-> << >>,
     result |-> [strength |-> "", score |-> 0, feedback |-> << >>,
                 is_acceptable |-> FALSE]]

InitAccounts ==
    /\ accounts = (1 :> [username |-> "wsadmin", email |-> "wsadmin@wingstop.com",
                         hashed_password |-> HashPassword("SecurePassword123!", 1)]
                   @@ 2 :> [username |-> "clerk01", email |-> "clerk01@wingstop.com",
                            hashed_password |-> HashPassword("OtherPassword456!", 2)])
    /\ areq = NoAccountRequest
    /\ pwcall = NoPasswordCall
    /\ analysis = NoAnalysis

(***************************************************************************)
(* Password strength (SecurityUtils.analyze_password_strength)             *)
(***************************************************************************)
LowerLetters ==
    <<"a", "b", "c", "d", "e", "f", "g", "h", "i", "j", "k", "l", "m",
      "n", "o", "p", "q", "r", "s", "t", "u", "v", "w", "x", "y", "z">>
UpperLetters ==
    <<"A", "B", "C", "D", "E", "F", "G", "H", "I", "J", "K", "L", "M",
      "N", "O", "P", "Q", "R", "S", "T", "U", "V", "W", "X", "Y", "Z">>
Digits == <<"0", "1", "2", "3", "4", "5", "6", "7", "8", "9">>

Range(seq) == {seq[i] : i \in DOMAIN seq}
IndexIn(seq, c) == CHOOSE i \in DOMAIN seq : seq[i] = c

IsLower(c) == c \in Range(LowerLetters)
IsUpper(c) == c \in Range(UpperLetters)
IsDigit(c) == c \in Range(Digits)
IsSpecial(c) == ~IsLower(c) /\ ~IsUpper(c) /\ ~IsDigit(c)

\* str.lower(), one character and a whole password
LowerChar(c) == IF IsUpper(c) THEN LowerLetters[IndexIn(UpperLetters, c)] ELSE c
LowerCase(chars) == [i \in DOMAIN chars |-> LowerChar(chars[i])]

\* the fixed dictionary of common passwords
CommonPasswords ==
    { <<"p", "a", "s", "s", "w", "o", "r", "d">>,
      <<"1", "2", "3", "4", "5", "6">>,
      <<"a", "d", "m", "i", "n">>,
      <<"q", "w", "e", "r", "t", "y">> }

\* three characters that follow each other in the alphabet or in the digits
Successive(a, b, c) ==
    \/ /\ IsLower(a) /\ IsLower(b) /\ IsLower(c)
       /\ IndexIn(LowerLetters, b) = IndexIn(LowerLetters, a) + 1
       /\ IndexIn(LowerLetters, c) = IndexIn(LowerLetters, b) + 1
    \/ /\ IsDigit(a) /\ IsDigit(b) /\ IsDigit(c)
       /\ IndexIn(Digits, b) = IndexIn(Digits, a) + 1
       /\ IndexIn(Digits, c) = IndexIn(Digits, b) + 1

HasSequential(chars) ==
    LET low == LowerCase(chars)
    IN  \E i \in 1..(Len(low) - 2) : Successive(low[i], low[i + 1], low[i + 2])

HasRepeated(chars) ==
    \E i \in 1..(Len(chars) - 2) : chars[i] = chars[i + 1] /\ chars[i + 1] = chars[i + 2]

\* the minimum length of a password
MIN_PASSWORD_LENGTH == 8

Points(cond) == IF cond THEN 1 ELSE 0

\* score -> strength
StrengthOf(score) ==
    CASE score <= 1 -> "very_weak"
      [] score = 2 -> "weak"
      [] score = 3 -> "medium"
      [] score = 4 -> "strong"
      [] OTHER -> "very_strong"

StrengthRank(strength) ==
    CASE strength = "very_weak" -> 0
      [] strength = "weak" -> 1
      [] strength = "medium" -> 2
      [] strength = "strong" -> 3
      [] OTHER -> 4

PasswordAnalysis(strength, score, feedback, is_acceptable) ==
    [strength |-> strength, score |-> score, feedback |-> feedback,
     is_acceptable |-> is_acceptable]

\* variant that tests the dictionary without lowering the password
InDictionaryCaseSensitive(chars) == chars \in CommonPasswords

\* the dictionary test: password.lower() in the common passwords
InDictionary(chars) == LowerCase(chars) \in CommonPasswords

\* analyze_password_strength: the dictionary first, then the length, then
\* the classes and the anti-patterns in the order checked. A password of the
\* dictionary is reported as weak with score 0 (tests/test_security_utils.py
\* test_weak_password, test_common_password_detection).
AnalyzePasswordStrength(chars) ==
    IF InDictionary(chars)
    THEN PasswordAnalysis("weak", 0, <<"Password is too common">>, FALSE)
    ELSE IF Len(chars) < MIN_PASSWORD_LENGTH
    THEN PasswordAnalysis("very_weak", 0, <<"Password is too short">>, FALSE)
    ELSE
      LET upper == \E i \in DOMAIN chars : IsUpper(chars[i])
          lower == \E i \in DOMAIN chars : IsLower(chars[i])
          digit == \E i \in DOMAIN chars : IsDigit(chars[i])
          special == \E i \in DOMAIN chars : IsSpecial(chars[i])
          raw == 1 + Points(upper) + Points(lower) + Points(digit) + Points(special)
                   - Points(HasSequential(chars)) - Points(HasRepeated(chars))
          score == IF raw < 0 THEN 0 ELSE IF raw > 5 THEN 5 ELSE raw
          feedback ==
              (IF upper THEN << >> ELSE <<"Missing uppercase letters">>)
              \o (IF lower THEN << >> ELSE <<"Missing lowercase letters">>)
              \o (IF digit THEN << >> ELSE <<"Missing numbers">>)
              \o (IF special THEN << >> ELSE <<"Missing special characters">>)
              \o (IF HasSequential(chars) THEN <<"sequential characters">> ELSE << >>)
              \o (IF HasRepeated(chars) THEN <<"repeated characters">> ELSE << >>)
      IN  PasswordAnalysis(StrengthOf(score), score, feedback,
                           StrengthRank(StrengthOf(score)) >= StrengthRank("medium"))

\* str.upper() of one character
UpperChar(c) == IF IsLower(c) THEN UpperLetters[IndexIn(LowerLetters, c)] ELSE c

\* every spelling of a word in upper and lower case
RECURSIVE CaseVariants(_)
CaseVariants(word) ==
    IF word = << >>
    THEN {<< >>}
    ELSE {<<c>> \o rest : c \in {word[1], UpperChar(word[1])},
                          rest \in CaseVariants(Tail(word))}

\* passwords analysed: the dictionary in every spelling, and passwords that
\* are not in it
AnalysedPasswords ==
    UNION {CaseVariants(word) : word \in CommonPasswords}
      \cup { <<"1", "2", "3">>,
             <<"p", "a", "s", "s", "w", "0", "r", "d">>,
             <<"p", "a", "s", "s", "w", "o", "r", "d", "s">>,
             <<"a", "d", "m", "i", "n", "1">>,
             <<"P", "a", "s", "s", "w", "o", "r", "d", "1", "2", "3">>,
             <<"P", "a", "s", "s", "w", "o", "r", "d", "1", "2", "3", "!">>,
             <<"P", "a", "s", "s", "w", "o", "r", "d", "1", "1", "1", "!">> }

\* SecurityUtils.analyze_password_strength(password)
AnalyzePassword(chars) ==
    /\ analysis' = [done |-> TRUE, password |-> chars,
                    result |-> AnalyzePasswordStrength(chars)]
    /\ UNCHANGED <<now, accounts, areq, pwcall>>
    /\ UNCHANGED rateVars
    /\ UNCHANGED sessVars
    /\ UNCHANGED callVars
    /\ UNCHANGED pipeVars
    /\ UNCHANGED bootVars
    /\ UNCHANGED concVars

\* the characters of the password texts of the requests
Chars(text) ==
    CASE text = "SecurePassword123!" ->
           <<"S", "e", "c", "u", "r", "e", "P", "a", "s", "s", "w", "o", "r", "d",
             "1", "2", "3", "!">>
      [] text = "OtherPassword456!" ->
           <<"O", "t", "h", "e", "r", "P", "a", "s", "s", "w", "o", "r", "d",
             "4", "5", "6", "!">>
      [] text = "password" -> <<"p", "a", "s", "s", "w", "o", "r", "d">>
      [] text = "123" -> <<"1", "2", "3">>
      [] OTHER -> << >>

(***************************************************************************)
(* Account endpoints of app/api/auth.py: login, register, change-password, *)
(* logout                                                                  *)
(***************************************************************************)
\* Field(min_length=3, max_length=50) and Field(min_length=8) of the request
\* models: a body that fails them is answered 422 before the handler runs
MIN_USERNAME_LENGTH == 3
MAX_USERNAME_LENGTH == 50

FieldsValid(username, password) ==
    /\ TextLength(username) >= MIN_USERNAME_LENGTH
    /\ TextLength(username) <= MAX_USERNAME_LENGTH
    /\ TextLength(password) >= MIN_PASSWORD_LENGTH

\* validate_registration_data(username, email, password)
ValidateRegistrationData(username, email, password) ==
    [is_valid |-> /\ TextLength(username) >= MIN_USERNAME_LENGTH
                  /\ TextLength(username) <= MAX_USERNAME_LENGTH
                  /\ email # "invalid-email"
                  /\ AnalyzePasswordStrength(Chars(password)).is_acceptable,
     password_strength |-> AnalyzePasswordStrength(Chars(password)).score]

\* variant of login that tests is_active before the password
LoginOutcomeActiveFirst(username, password, accts, us) ==
    IF ~FieldsValid(username, password) THEN Unprocessable
    ELSE
      LET found == UserIdByUsername(SanitizeInput(username), accts)
      IN  IF found = NoneOpt THEN Unauthorized("Invalid username or password")
          ELSE IF ~us[found[1]].is_active
          THEN Unauthorized("User account is inactive")
          ELSE LET checked == VerifyPassword(password, accts[found[1]].hashed_password)
               IN  IF checked.raised THEN ServerError
                   ELSE IF ~checked.result
                   THEN Unauthorized("Invalid username or password")
                   ELSE Passed(UserOf(found[1], us))

\* login up to the point where the tokens are made: the response it raises,
\* or the user it found
LoginOutcome(username, password, accts, us) ==
    IF ~FieldsValid(username, password) THEN Unprocessable
    ELSE
      LET found == UserIdByUsername(SanitizeInput(username), accts)
      IN  IF found = NoneOpt THEN Unauthorized("Invalid username or password")
          ELSE LET checked == VerifyPassword(password, accts[found[1]].hashed_password)
               IN  IF checked.raised THEN ServerError
                   ELSE IF ~checked.result
                   THEN Unauthorized("Invalid username or password")
                   ELSE IF ~us[found[1]].is_active
                   THEN Unauthorized("User account is inactive")
                   ELSE Passed(UserOf(found[1], us))

\* POST /auth/login with a username and a password
LoginWithCredentials(username, password) ==
    /\ Cardinality(issued) + 2 <= MaxIssued
    /\ LET res == LoginOutcome(username, password, accounts, users)
       IN  IF res.status # 200
           THEN /\ last' = Response("login", NoToken, now, res, {})
                /\ areq' = [NoAccountRequest EXCEPT !.username = username,
                                                    !.password = password]
                /\ UNCHANGED issued /\ emitted' = << >>
           ELSE LET access_token ==
                        CreateAccessToken(AccessData(res.user.id, users),
                                          Some(Minutes(ACCESS_TOKEN_EXPIRE_MINUTES)), now)
                    refresh_token == CreateRefreshToken(RefreshData(res.user.id), now)
                IN  /\ issued' = issued \cup {access_token, refresh_token}
                    /\ emitted' = <<AuditEvent("user_login", res.user.id)>>
                    /\ last' = Response("login", NoToken, now, res,
                                        {access_token, refresh_token})
                    /\ areq' = [NoAccountRequest EXCEPT
                                  !.username = username, !.password = password,
                                  !.expires_in = ACCESS_TOKEN_EXPIRE_MINUTES * 60]
    /\ UNCHANGED <<now, ticks, users, roles, accounts, pwcall, analysis>>
    /\ UNCHANGED rateVars
    /\ UNCHANGED callVars
    /\ UNCHANGED pipeVars
    /\ UNCHANGED bootVars
    /\ UNCHANGED concVars

\* the primary key the database gives a new user row
NextUserId(accts) ==
    IF DOMAIN accts = {} THEN 1
    ELSE 1 + CHOOSE id \in DOMAIN accts : \A other \in DOMAIN accts : other <= id

MaxUserId == 3

\* register up to the point where the row is written: the response it
\* raises, or 201. auth_manager.validate_registration_data is looked up on
\* an AuthenticationManager, which defines no such method: AttributeError.
RegisterOutcome(username, email, password, accts) ==
    IF ~FieldsValid(username, password) THEN Unprocessable
    ELSE IF "validate_registration_data" \notin AuthenticationManagerMethods
    THEN ServerError
    ELSE IF ~ValidateRegistrationData(SanitizeInput(username), SanitizeInput(email),
                                      password).is_valid
    THEN BadRequest(<<"Registration validation failed: ">>)
    ELSE IF UserIdByUsername(SanitizeInput(username), accts) # NoneOpt
    THEN BadRequest(<<"Username already registered">>)
    ELSE IF UserIdByEmail(SanitizeInput(email), accts) # NoneOpt
    THEN BadRequest(<<"Email already registered">>)
    ELSE Created(NoUser)

\* POST /auth/register
Register(username, email, password, role_id, salt) ==
    /\ Cardinality(issued) + 2 <= MaxIssued
    /\ NextUserId(accounts) <= MaxUserId
    /\ LET res == RegisterOutcome(username, email, password, accounts)
           id == NextUserId(accounts)
           request == [NoAccountRequest EXCEPT !.username = username, !.email = email,
                                               !.password = password, !.role_id = role_id]
       IN  IF res.status # 201
           THEN /\ last' = Response("register", NoToken, now, res, {})
                /\ areq' = request
                /\ UNCHANGED <<issued, users, accounts>> /\ emitted' = << >>
           ELSE LET us == [i \in DOMAIN users \cup {id} |->
                             IF i = id THEN [is_active |-> TRUE, role_id |-> role_id]
                             ELSE users[i]]
                    access_token ==
                        CreateAccessToken(AccessData(id, us),
                                          Some(Minutes(ACCESS_TOKEN_EXPIRE_MINUTES)), now)
                    refresh_token == CreateRefreshToken(RefreshData(id), now)
                IN  /\ users' = us
                    /\ accounts' =
                         [i \in DOMAIN accounts \cup {id} |->
                            IF i = id
                            THEN [username |-> SanitizeInput(username),
                                  email |-> SanitizeInput(email),
                                  hashed_password |-> HashPassword(password, salt)]
                            ELSE accounts[i]]
                    /\ issued' = issued \cup {access_token, refresh_token}
                    /\ emitted' = <<AuditEvent("user_registered", id)>>
                    /\ last' = Response("register", NoToken, now, Created(UserOf(id, us)),
                                        {access_token, refresh_token})
                    /\ areq' = [request EXCEPT
                                  !.expires_in = ACCESS_TOKEN_EXPIRE_MINUTES * 60]
    /\ UNCHANGED <<now, ticks, roles, pwcall, analysis>>
    /\ UNCHANGED rateVars
    /\ UNCHANGED callVars
    /\ UNCHANGED pipeVars
    /\ UNCHANGED bootVars
    /\ UNCHANGED concVars

\* POST /auth/change-password: Depends(get_current_user), then the handler.
\* auth_manager.validate_password_strength is no method of
\* AuthenticationManager either: AttributeError.
ChangePassword(token, current_password, new_password, salt) ==
    /\ LET auth == GetCurrentUser(token, users, now)
           request == [NoAccountRequest EXCEPT !.password = current_password,
                                               !.new_password = new_password]
           checked == VerifyPassword(current_password,
                                      accounts[auth.user.id].hashed_password)
           res == IF auth.status # 200 THEN auth
                  ELSE IF TextLength(new_password) < MIN_PASSWORD_LENGTH THEN Unprocessable
                  ELSE IF checked.raised THEN ServerError
                  ELSE IF ~checked.result
                  THEN BadRequest(<<"Current password is incorrect">>)
                  ELSE IF "validate_password_strength" \notin AuthenticationManagerMethods
                  THEN ServerError
                  ELSE IF ~AnalyzePasswordStrength(Chars(new_password)).is_acceptable
                  THEN BadRequest(<<"New password does not meet requirements: ">>)
                  ELSE Passed(auth.user)
       IN  /\ areq' = request
           /\ last' = Response("change_password", token, now, res, {})
           /\ IF res.status # 200
              THEN UNCHANGED accounts /\ emitted' = << >>
              ELSE /\ accounts' = [accounts EXCEPT ![auth.user.id].hashed_password =
                                                     HashPassword(new_password, salt)]
                   /\ emitted' = <<AuditEvent("password_changed", auth.user.id)>>
    /\ UNCHANGED <<now, ticks, users, roles, issued, pwcall, analysis>>
    /\ UNCHANGED rateVars
    /\ UNCHANGED callVars
    /\ UNCHANGED pipeVars
    /\ UNCHANGED bootVars
    /\ UNCHANGED concVars

\* POST /auth/logout: no dependency; the event has user_id None (0 here)
Logout ==
    /\ last' = Response("logout", NoToken, now, Passed(NoUser), {})
    /\ emitted' = <<AuditEvent("user_logout", 0)>>
    /\ areq' = NoAccountRequest
    /\ UNCHANGED <<now, ticks, users, roles, issued, accounts, pwcall, analysis>>
    /\ UNCHANGED rateVars
    /\ UNCHANGED callVars
    /\ UNCHANGED pipeVars
    /\ UNCHANGED bootVars
    /\ UNCHANGED concVars

\* a direct call of AuthenticationManager.verify_password
CallVerifyPassword(password, hashed_password) ==
    /\ pwcall' = [done |-> TRUE, password |-> password,
                  hashed_password |-> hashed_password,
                  raised |-> VerifyPassword(password, hashed_password).raised,
                  result |-> VerifyPassword(password, hashed_password).result]
    /\ UNCHANGED <<now, accounts, areq, analysis>>
    /\ UNCHANGED rateVars
    /\ UNCHANGED sessVars
    /\ UNCHANGED callVars
    /\ UNCHANGED pipeVars
    /\ UNCHANGED bootVars
    /\ UNCHANGED concVars

(***************************************************************************)
(* Direct use of AuthenticationManager.create_access_token / verify_token  *)
(***************************************************************************)
\* claims maps handed to create_access_token; a map may already carry a type
ClaimMaps ==
    { [sub |-> s, role_id |-> r, exp |-> 0, type |-> t, sig |-> FALSE] :
        s \in {"1", "2"}, r \in {NoneOpt, Some(1)}, t \in {None, "refresh"} }

\* expires_delta values, in seconds
Ttls == {Some(0), Some(60), Some(Minutes(ACCESS_TOKEN_EXPIRE_MINUTES)), Some(0 - 60)}

TokenDelays == {30, 60, Minutes(ACCESS_TOKEN_EXPIRE_MINUTES)}

NoCreated == [data |-> NoToken, expires_delta |-> NoneOpt, at |-> 0, token |-> NoToken]
NoVerified == [called |-> FALSE, at |-> 0, ok |-> FALSE, detail |-> "", payload |-> NoToken]

InitCalls ==
    /\ created = NoCreated
    /\ verified = NoVerified

CallCreateAccessToken(data, expires_delta) ==
    /\ UNCHANGED pipeVars
    /\ UNCHANGED bootVars
    /\ UNCHANGED concVars
    /\ UNCHANGED acctVars
    /\ created' = [data |-> data, expires_delta |-> expires_delta, at |-> now,
                   token |-> CreateAccessToken(data, expires_delta, now)]
    /\ verified' = NoVerified
    /\ UNCHANGED <<now, mw>>
    /\ UNCHANGED rateVars
    /\ UNCHANGED sessVars

CallVerifyToken ==
    /\ UNCHANGED pipeVars
    /\ UNCHANGED bootVars
    /\ UNCHANGED concVars
    /\ UNCHANGED acctVars
    /\ created # NoCreated
    /\ LET res == VerifyToken(created.token, now)
       IN  verified' = [called |-> TRUE, at |-> now, ok |-> res.ok, detail |-> res.detail,
                        payload |-> IF res.ok THEN res.payload ELSE NoToken]
    /\ UNCHANGED <<now, created, mw>>
    /\ UNCHANGED rateVars
    /\ UNCHANGED sessVars

TickToken(d) ==
    /\ UNCHANGED pipeVars
    /\ UNCHANGED bootVars
    /\ UNCHANGED concVars
    /\ UNCHANGED acctVars
    /\ ticks < MaxTicks
    /\ ticks' = ticks + 1
    /\ now' = now + d
    /\ UNCHANGED <<users, roles, issued, last, emitted>>
    /\ UNCHANGED rateVars
    /\ UNCHANGED callVars

(***************************************************************************)
(* AuthenticationMiddleware.dispatch                                       *)
(***************************************************************************)
\* request paths, as sequences of characters
PathRoot == <<"/">>
PathHealth == <<"/", "h", "e", "a", "l", "t", "h">>
PathHealthDb == PathHealth \o <<"/", "d", "b">>
PathDocs == <<"/", "d", "o", "c", "s">>
PathOpenapi == <<"/", "o", "p", "e", "n", "a", "p", "i", ".", "j", "s", "o", "n">>
PathRedoc == <<"/", "r", "e", "d", "o", "c">>
PathApiV1 == <<"/", "a", "p", "i", "/", "v", "1">>
PathPublic == PathApiV1 \o <<"/", "p", "u", "b", "l", "i", "c">>
PathUsers == PathApiV1 \o <<"/", "u", "s", "e", "r", "s", "/">>
PathAuthMe == PathApiV1 \o <<"/", "a", "u", "t", "h", "/", "m", "e">>

skip_auth_paths == <<PathRoot, PathHealth, PathHealthDb, PathDocs, PathOpenapi, PathRedoc>>

RequestPaths ==
    {PathRoot, PathHealth, PathHealthDb, PathDocs, PathOpenapi, PathRedoc,
     PathPublic, PathUsers, PathAuthMe}

\* str.startswith
StartsWith(text, prefix) ==
    /\ Len(prefix) <= Len(text)
    /\ SubSeq(text, 1, Len(prefix)) = prefix

\* an Authorization header value as the words auth_header.split() yields; a
\* word is plain text or an encoded token
Word(text) == [text |-> text, tok |-> NoToken]
TokenWord(token) == [text |-> "<jwt>", tok |-> token]
NoHeader == [present |-> FALSE, words |-> << >>]
Header(words) == [present |-> TRUE, words |-> words]

\* str.lower on the scheme word
Lower(text) ==
    CASE text = "Bearer" -> "bearer"
      [] text = "BEARER" -> "bearer"
      [] text = "Basic" -> "basic"
      [] OTHER -> text

HeadersWith(tokens) ==
    {NoHeader, Header(<<Word("Bearer")>>)}
    \cup {Header(<<Word(s), TokenWord(t)>>) : s \in {"Bearer", "BEARER", "Basic"}, t \in tokens}
    \cup {Header(<<Word("Bearer"), TokenWord(t), Word("x")>>) : t \in tokens}

CallNext(payload) ==
    [outcome |-> "call_next", status |-> 0, detail |-> "", state_user |-> payload]
Raise401(detail) ==
    [outcome |-> "raise", status |-> 401, detail |-> detail, state_user |-> NoToken]

\* AuthenticationMiddleware.dispatch: the request is passed to call_next, with
\* request.state.user set when a token was verified, or HTTPException(401)
AuthDispatch(path, header, utcnow) ==
    IF \E i \in DOMAIN skip_auth_paths : StartsWith(path, skip_auth_paths[i])
    THEN CallNext(NoToken)
    ELSE IF ~header.present
    THEN IF StartsWith(path, PathPublic)
         THEN CallNext(NoToken)
         ELSE Raise401("Missing authorization header")
    ELSE IF Len(header.words) # 2
    THEN Raise401("Invalid authentication credentials")
    ELSE IF Lower(header.words[1].text) # "bearer"
    THEN Raise401("Invalid authentication scheme")
    ELSE LET res == VerifyToken(header.words[2].tok, utcnow)
         IN  IF res.ok THEN CallNext(res.payload) ELSE Raise401(res.detail)

NoDispatch == [op |-> "none", path |-> << >>, header |-> NoHeader, at |-> 0,
               outcome |-> "none", status |-> 0, detail |-> "", state_user |-> NoToken]

InitMw == mw = NoDispatch

\* tokens a client of the middleware presents, besides crafted ones: those a
\* login at time 0 mints for the seeded accounts
MintedNow ==
    {CreateAccessToken(AccessData(id, users), Some(Minutes(ACCESS_TOKEN_EXPIRE_MINUTES)), 0) :
        id \in DOMAIN users}
    \cup {CreateRefreshToken(RefreshData(id), 0) : id \in DOMAIN users}

AuthMiddlewareDispatch(path, header) ==
    /\ UNCHANGED pipeVars
    /\ UNCHANGED bootVars
    /\ UNCHANGED concVars
    /\ UNCHANGED acctVars
    /\ LET res == AuthDispatch(path, header, now)
       IN  mw' = [op |-> "dispatch", path |-> path, header |-> header, at |-> now,
                  outcome |-> res.outcome, status |-> res.status,
                  detail |-> res.detail, state_user |-> res.state_user]
    /\ UNCHANGED <<now, created, verified>>
    /\ UNCHANGED rateVars
    /\ UNCHANGED sessVars

(***************************************************************************)
(* Process start: `settings = Settings()` of app/core/config.py, run when  *)
(* main.py is imported, and the `__main__` block of main.py.               *)
(* Settings is a pydantic.BaseSettings: a field is read from the process   *)
(* environment, else from the .env file, else it takes its default; a      *)
(* validator declared without always=True runs on supplied values only.    *)
(***************************************************************************)
Unset == "<unset>"

\* Field(default=...) of SECRET_KEY and of ENVIRONMENT
DEFAULT_SECRET_KEY == "your-super-secret-key-change-this-in-production"
DEFAULT_ENVIRONMENT == "development"

\* secrets.token_urlsafe(32)
GeneratedSecret == "<token_urlsafe>"

\* values a deployment gives to ENVIRONMENT and to SECRET_KEY
EnvironmentSettings == {Unset, "development", "production"}
SecretSettings == {Unset, DEFAULT_SECRET_KEY, "k3J9-deployment-secret"}

\* what a deployment configures: variables of the process environment and
\* the lines of the .env file
Deployments ==
    [os_environment : EnvironmentSettings, os_secret_key : SecretSettings,
     env_file_environment : EnvironmentSettings,
     env_file_secret_key : SecretSettings]

\* BaseSettings: the value supplied for a field, Unset when none is
Supplied(os_value, env_file_value) ==
    IF os_value # Unset THEN os_value ELSE env_file_value

\* os.getenv(name)
Getenv(os_value) == IF os_value = Unset THEN NoneOpt ELSE Some(os_value)

\* Settings.validate_secret_key(v): the value it returns, or that it raises
ValidateSecretKey(v, os_environment) ==
    IF v = DEFAULT_SECRET_KEY
    THEN IF Getenv(os_environment) = Some("production")
         THEN [raised |-> TRUE, value |-> v]
         ELSE [raised |-> FALSE, value |-> GeneratedSecret]
    ELSE [raised |-> FALSE, value |-> v]

\* Settings(): the fields of the instance, or that construction raised
Settings(deployment) ==
    LET env == Supplied(deployment.os_environment, deployment.env_file_environment)
        key == Supplied(deployment.os_secret_key, deployment.env_file_secret_key)
        checked == ValidateSecretKey(key, deployment.os_environment)
    IN  [raised |-> key # Unset /\ checked.raised,
         ENVIRONMENT |-> IF env = Unset THEN DEFAULT_ENVIRONMENT ELSE env,
         SECRET_KEY |-> IF key = Unset THEN DEFAULT_SECRET_KEY ELSE checked.value]

\* the deployment's configuration is a production one
ProductionDeployment(deployment) ==
    Supplied(deployment.os_environment, deployment.env_file_environment) = "production"

\* the signing secret the deployment configures
ConfiguredSecret(deployment) ==
    Supplied(deployment.os_secret_key, deployment.env_file_secret_key)

Process(deployment, phase, secret_key) ==
    [deployment |-> deployment, phase |-> phase, secret_key |-> secret_key]

\* a process of the other models: started in development with its own secret
InitBoot ==
    proc = Process([os_environment |-> Unset, os_secret_key |-> "k3J9-deployment-secret",
                    env_file_environment |-> Unset, env_file_secret_key |-> Unset],
                   "running", "k3J9-deployment-secret")

\* `from app.core.config import settings`: the module body runs Settings()
LoadSettings ==
    /\ proc.phase = "created"
    /\ LET s == Settings(proc.deployment)
       IN  IF s.raised
           THEN /\ proc' = [proc EXCEPT !.phase = "refused"]
                /\ UNCHANGED environment
           ELSE /\ proc' = [proc EXCEPT !.phase = "loaded", !.secret_key = s.SECRET_KEY]
                /\ environment' = s.ENVIRONMENT
    /\ UNCHANGED <<now, pipe>>
    /\ UNCHANGED rateVars
    /\ UNCHANGED sessVars
    /\ UNCHANGED callVars
    /\ UNCHANGED acctVars
    /\ UNCHANGED concVars

\* uvicorn.run(app, ...) of main.py; nothing between the import and this call
\* looks at the configuration (config_manager.validate_configuration has no caller)
StartServer ==
    /\ proc.phase = "loaded"
    /\ proc' = [proc EXCEPT !.phase = "running"]
    /\ UNCHANGED <<now, environment, pipe>>
    /\ UNCHANGED rateVars
    /\ UNCHANGED sessVars
    /\ UNCHANGED callVars
    /\ UNCHANGED acctVars
    /\ UNCHANGED concVars

(***************************************************************************)
(* Request pipeline: the stages of app/core/middleware.py and              *)
(* app/core/security.py, the stacks that setup_middleware and              *)
(* setup_security_middleware build, and the application main.py serves.    *)
(* Text (messages, details) is a sequence of string parts, so that an      *)
(* f-string is the concatenation of its parts.                             *)
(***************************************************************************)
Environments == {"development", "production"}

\* settings.is_production
is_production(env) == env = "production"

\* one entry of a details dictionary
Detail(key, number, text) == [key |-> key, number |-> number, text |-> text]

\* response headers: the set of (name, value) pairs set so far
HasHeader(headers, name) == \E h \in headers : h[1] = name
SetHeader(headers, name, value) ==
    {h \in headers : h[1] # name} \cup {<<name, value>>}

\* response bodies: the error envelope {"error": {...}}, the framework's
\* {"detail": ...} for an HTTPException raised in a handler, a success payload
EnvelopeBody(message, code, details, correlation_id) ==
    [shape |-> "envelope", message |-> message, code |-> code,
     details |-> details, correlation_id |-> correlation_id]
DetailBody(detail) ==
    [shape |-> "detail", message |-> detail, code |-> "",
     details |-> {}, correlation_id |-> ""]
JsonBody ==
    [shape |-> "json", message |-> << >>, code |-> "",
     details |-> {}, correlation_id |-> ""]

\* JSONResponse(status_code, content)
JSONResponse(status_code, content) ==
    [status_code |-> status_code, body |-> content, headers |-> {}]

(***************************************************************************)
(* app/core/exceptions.py                                                  *)
(***************************************************************************)
\* BaseAppException.__init__ ; `details or {}`
BaseAppException(class, message, error_code, status_code, details) ==
    [class |-> class, base |-> "BaseAppException", message |-> message,
     error_code |-> error_code, status_code |-> status_code, details |-> details]

ValidationError(message, field) ==
    BaseAppException("ValidationError", message, "VALIDATION_ERROR", 400,
                     {Detail("field", 0, field)})
AuthenticationError(message) ==
    BaseAppException("AuthenticationError", message, "AUTHENTICATION_ERROR", 401, {})
AuthorizationError(message) ==
    BaseAppException("AuthorizationError", message, "AUTHORIZATION_ERROR", 403, {})
NotFoundError(resource) ==
    BaseAppException("NotFoundError", <<resource, " not found">>, "NOT_FOUND_ERROR", 404,
                     {Detail("resource", 0, <<resource>>), Detail("resource_id", 0, << >>)})
ConflictError(message) ==
    BaseAppException("ConflictError", message, "CONFLICT_ERROR", 409, {})
DatabaseError(message) ==
    BaseAppException("DatabaseError", message, "DATABASE_ERROR", 500, {})
ExternalServiceError(service, message) ==
    BaseAppException("ExternalServiceError", <<service, " service error: ">> \o message,
                     "EXTERNAL_SERVICE_ERROR", 502, {Detail("service", 0, <<service>>)})
RateLimitError(message, retry_after) ==
    BaseAppException("RateLimitError", message, "RATE_LIMIT_ERROR", 429,
                     IF retry_after # 0
                     THEN {Detail("retry_after", retry_after, << >>)}
                     ELSE {})

\* exceptions of the libraries: pydantic.ValidationError,
\* sqlalchemy.exc.SQLAlchemyError, fastapi.HTTPException, any other Exception
LibraryException(class, message, status_code) ==
    [class |-> class, base |-> class, message |-> message,
     error_code |-> "", status_code |-> status_code, details |-> {}]
PydanticValidationError(message) == LibraryException("PydanticValidationError", message, 0)
SQLAlchemyError(message) == LibraryException("SQLAlchemyError", message, 0)
HTTPException(status_code, detail) == LibraryException("HTTPException", detail, status_code)
UnexpectedException(message) == LibraryException("Exception", message, 0)

NoException == LibraryException("", << >>, 0)
NoResponse == [status_code |-> 0, body |-> JsonBody, headers |-> {}]

\* what a call returns to its caller: a response, or a raised exception
Returned(response) == [raised |-> FALSE, exc |-> NoException, response |-> response]
Raised(exc) == [raised |-> TRUE, exc |-> exc, response |-> NoResponse]

(***************************************************************************)
(* The stages.  Each is given what `await call_next(request)` produced     *)
(* (a response, or a raised exception) and yields what it itself produces. *)
(***************************************************************************)
\* log_with_context(logger, level, message, **fields)
LogEvent(level, message, correlation_id, status_code, duration, error) ==
    [level |-> level, message |-> message, correlation_id |-> correlation_id,
     status_code |-> status_code, duration |-> duration, error |-> error]

\* CorrelationMiddleware.dispatch after call_next: the header is set on a
\* response; a raised exception passes through
CorrelationAfter(out, correlation_id) ==
    IF out.raised
    THEN out
    ELSE Returned([out.response EXCEPT
                     !.headers = SetHeader(@, "X-Correlation-ID", correlation_id)])

\* LoggingMiddleware.dispatch: the event before call_next, and the event after
\* it; duration = time.time() - start_time
RequestStarted(ctx) ==
    LogEvent("info", <<"Request started">>, ctx, 0, NoneOpt, << >>)
RequestClosedWithoutStatus(out, ctx, duration) ==
    IF out.raised
    THEN LogEvent("error", <<"Request failed">>, ctx, 0, Some(duration), out.exc.message)
    ELSE LogEvent("info", <<"Request completed">>, ctx, 0, Some(duration), << >>)
RequestClosed(out, ctx, duration) ==
    IF out.raised
    THEN LogEvent("error", <<"Request failed">>, ctx, 0, Some(duration), out.exc.message)
    ELSE LogEvent("info", <<"Request completed">>, ctx, out.response.status_code,
                  Some(duration), << >>)

\* ErrorHandlingMiddleware.dispatch: the except clauses, in their order
ErrorHandlingResponse(exc, ctx, env) ==
    CASE exc.base = "BaseAppException" ->
           JSONResponse(exc.status_code,
                        EnvelopeBody(exc.message, exc.error_code, exc.details, ctx))
      [] exc.base = "PydanticValidationError" ->
           JSONResponse(422,
                        EnvelopeBody(<<"Validation error">>, "VALIDATION_ERROR",
                                     {Detail("errors", 0, exc.message)}, ctx))
      [] exc.base = "SQLAlchemyError" ->
           JSONResponse(500,
                        EnvelopeBody(<<"Database operation failed">>, "DATABASE_ERROR",
                                     {Detail("database_error", 0, exc.message)}, ctx))
      [] OTHER ->
           IF is_production(env)
           THEN JSONResponse(500,
                             EnvelopeBody(<<"Internal server error">>,
                                          "INTERNAL_SERVER_ERROR", {}, ctx))
           ELSE JSONResponse(500,
                             EnvelopeBody(exc.message, "INTERNAL_SERVER_ERROR",
                                          {Detail("unexpected_error", 0, exc.message)}, ctx))

ErrorHandlingLog(exc, ctx) ==
    CASE exc.base = "BaseAppException" ->
           LogEvent("error", <<"Application error: ">> \o exc.message, ctx,
                    exc.status_code, NoneOpt, << >>)
      [] exc.base = "PydanticValidationError" ->
           LogEvent("error", <<"Validation error: ">> \o exc.message, ctx, 422, NoneOpt, << >>)
      [] exc.base = "SQLAlchemyError" ->
           LogEvent("error", <<"Database error: ">> \o exc.message, ctx, 500, NoneOpt, << >>)
      [] OTHER ->
           LogEvent("error", <<"Unexpected error: ">> \o exc.message, ctx, 500, NoneOpt, << >>)

ErrorHandlingAfter(out, ctx, env) ==
    IF out.raised
    THEN Returned(ErrorHandlingResponse(out.exc, ctx, env))
    ELSE out

\* middleware.SecurityMiddleware.dispatch after call_next
SecurityHeaders(headers) ==
    LET h1 == SetHeader(headers, "X-Content-Type-Options", "nosniff")
        h2 == SetHeader(h1, "X-Frame-Options", "DENY")
        h3 == SetHeader(h2, "X-XSS-Protection", "1; mode=block")
    IN  IF ~HasHeader(h3, "Access-Control-Allow-Origin")
        THEN SetHeader(h3, "Access-Control-Allow-Origin", "*")
        ELSE h3

SecurityAfter(out) ==
    IF out.raised
    THEN out
    ELSE Returned([out.response EXCEPT !.headers = SecurityHeaders(@)])

\* SecurityConfig.get_security_headers / get_csp_policy / get_cors_config
get_security_headers(env) ==
    << <<"X-Content-Type-Options", "nosniff">>,
       <<"X-Frame-Options", "DENY">>,
       <<"X-XSS-Protection", "1; mode=block">>,
       <<"Referrer-Policy", "strict-origin-when-cross-origin">>,
       <<"Permissions-Policy", "geolocation=(), microphone=(), camera=()">>,
       <<"Strict-Transport-Security",
         IF is_production(env) THEN "max-age=31536000; includeSubDomains" ELSE "">> >>

get_csp_policy(env) ==
    IF is_production(env)
    THEN "default-src 'self'; script-src 'self' 'unsafe-inline' 'unsafe-eval'; style-src 'self' 'unsafe-inline'; img-src 'self' data: https:; font-src 'self'; connect-src 'self'; frame-ancestors 'none';"
    ELSE "default-src 'self'; script-src 'self' 'unsafe-inline' 'unsafe-eval'; style-src 'self' 'unsafe-inline'; img-src 'self' data: https:; font-src 'self'; connect-src 'self';"

ALLOWED_ORIGINS == <<"http://localhost:3000", "http://localhost:5173", "http://127.0.0.1:3000">>

allow_origins(env) == IF is_production(env) THEN ALLOWED_ORIGINS ELSE <<"*">>

\* security.SecurityMiddleware.dispatch after call_next
RECURSIVE AddNonEmpty(_, _, _)
AddNonEmpty(headers, items, i) ==
    IF i > Len(items)
    THEN headers
    ELSE AddNonEmpty(IF items[i][2] # ""
                     THEN SetHeader(headers, items[i][1], items[i][2])
                     ELSE headers,
                     items, i + 1)

EnhancedSecurityHeaders(headers, env) ==
    LET h1 == AddNonEmpty(headers, get_security_headers(env), 1)
        h2 == SetHeader(h1, "Content-Security-Policy", get_csp_policy(env))
    IN  IF ~HasHeader(h2, "Access-Control-Allow-Origin")
        THEN SetHeader(h2, "Access-Control-Allow-Origin",
                       IF Len(allow_origins(env)) > 0 THEN allow_origins(env)[1] ELSE "*")
        ELSE h2

EnhancedSecurityAfter(out, env) ==
    IF out.raised
    THEN out
    ELSE Returned([out.response EXCEPT !.headers = EnhancedSecurityHeaders(@, env)])

\* RateLimitMiddleware.dispatch: the 429 response
RETRY_AFTER == 60

\* variant that answers like a framework HTTPException, without the envelope
RateLimitResponseDetailOnly(ctx) ==
    JSONResponse(429, DetailBody(<<"Rate limit exceeded">>))

RateLimitResponse(ctx) ==
    JSONResponse(429,
                 EnvelopeBody(<<"Rate limit exceeded">>, "RATE_LIMIT_ERROR",
                              {Detail("retry_after", RETRY_AFTER, << >>)}, ctx))

RateLimitLog(client_ip, ctx) ==
    LogEvent("warning", <<"Rate limit exceeded for IP: ", client_ip>>, ctx, 0, NoneOpt, << >>)

\* RequestValidationMiddleware.dispatch before call_next
MAX_FILE_SIZE == 10485760

ContentTypeAllowed(content_type) ==
    content_type \in {"application/json", "application/json; charset=utf-8",
                      "multipart/form-data; boundary=x",
                      "application/x-www-form-urlencoded"}

RequestValidation(request) ==
    IF request.content_length # NoneOpt
       /\ request.content_length[1] > MAX_FILE_SIZE
    THEN Raised(HTTPException(413, <<"Request too large">>))
    ELSE IF request.method \in {"POST", "PUT", "PATCH"}
            /\ ~ContentTypeAllowed(request.content_type)
    THEN Raised(HTTPException(415, <<"Unsupported media type">>))
    ELSE Returned(NoResponse)

(***************************************************************************)
(* The application and the stacks                                          *)
(***************************************************************************)
\* The FastAPI application: a handler (with its dependencies) returns a
\* response or raises; an HTTPException raised in a handler or dependency is
\* answered by the application itself with {"detail": ...}; any other
\* exception leaves the application.
App(handled) ==
    IF handled.raised /\ handled.exc.class = "HTTPException"
    THEN Returned(JSONResponse(handled.exc.status_code, DetailBody(handled.exc.message)))
    ELSE handled

\* `app = Stage(app)`: the new stage becomes the outermost one
Wrap(stack, stage) == <<stage>> \o stack

\* setup_middleware(app): the stages, outermost first
setup_middleware ==
    LET a1 == Wrap(<< >>, "RateLimitMiddleware")
        a2 == Wrap(a1, "middleware.SecurityMiddleware")
        a3 == Wrap(a2, "ErrorHandlingMiddleware")
        a4 == Wrap(a3, "LoggingMiddleware")
        a5 == Wrap(a4, "CorrelationMiddleware")
    IN  a5

\* setup_security_middleware(app): the stages, outermost first
setup_security_middleware ==
    LET b1 == Wrap(<< >>, "AuthenticationMiddleware")
        b2 == Wrap(b1, "RequestValidationMiddleware")
        b3 == Wrap(b2, "security.SecurityMiddleware")
    IN  b3

\* main.py calls both setup functions and drops what they return: the
\* application it serves is `app` itself, wrapped by no stage.
ServedApp == << >>

\* One request through stages i.. of a stack and the application.
\*   c      : the request, the uuid4 drawn for it, what the handler does,
\*            the environment and the clock
\*   ctx    : the correlation_id context variable ('' by default)
\*   counts : RateLimitMiddleware.request_counts
\* Yields the outcome, the log events in order, the stages whose dispatch
\* ran (in order, "app" for the application) and the new request_counts.
RECURSIVE RunStack(_, _, _, _, _)
RunStack(stack, i, c, ctx, counts) ==
    IF i > Len(stack)
    THEN [outcome |-> App(c.handled), log |-> << >>, trace |-> <<"app">>, counts |-> counts]
    ELSE
    CASE stack[i] = "CorrelationMiddleware" ->
           LET r == RunStack(stack, i + 1, c, c.correlation_id, counts)
           IN  [r EXCEPT !.outcome = CorrelationAfter(@, c.correlation_id),
                         !.trace = <<stack[i]>> \o @]
      [] stack[i] = "LoggingMiddleware" ->
           LET r == RunStack(stack, i + 1, c, ctx, counts)
           IN  [r EXCEPT !.log = <<RequestStarted(ctx)>> \o @
                                   \o <<RequestClosed(r.outcome, ctx, 0)>>,
                         !.trace = <<stack[i]>> \o @]
      [] stack[i] = "ErrorHandlingMiddleware" ->
           LET r == RunStack(stack, i + 1, c, ctx, counts)
           IN  [r EXCEPT !.outcome = ErrorHandlingAfter(@, ctx, c.env),
                         !.log = IF r.outcome.raised
                                 THEN @ \o <<ErrorHandlingLog(r.outcome.exc, ctx)>>
                                 ELSE @,
                         !.trace = <<stack[i]>> \o @]
      [] stack[i] = "middleware.SecurityMiddleware" ->
           LET r == RunStack(stack, i + 1, c, ctx, counts)
           IN  [r EXCEPT !.outcome = SecurityAfter(@),
                         !.trace = <<stack[i]>> \o @]
      [] stack[i] = "RateLimitMiddleware" ->
           LET d == RateLimitDecision(counts, c.request.client_ip, c.now)
               r == RunStack(stack, i + 1, c, ctx, d.counts)
           IN  IF d.admitted
               THEN [r EXCEPT !.trace = <<stack[i]>> \o @]
               ELSE [outcome |-> Returned(RateLimitResponse(ctx)),
                     log |-> <<RateLimitLog(c.request.client_ip, ctx)>>,
                     trace |-> <<stack[i]>>,
                     counts |-> d.counts]
      [] stack[i] = "security.SecurityMiddleware" ->
           LET r == RunStack(stack, i + 1, c, ctx, counts)
           IN  [r EXCEPT !.outcome = EnhancedSecurityAfter(@, c.env),
                         !.trace = <<stack[i]>> \o @]
      [] stack[i] = "RequestValidationMiddleware" ->
           LET v == RequestValidation(c.request)
               r == RunStack(stack, i + 1, c, ctx, counts)
           IN  IF v.raised
               THEN [outcome |-> v, log |-> << >>, trace |-> <<stack[i]>>, counts |-> counts]
               ELSE [r EXCEPT !.trace = <<stack[i]>> \o @]
      [] OTHER ->  \* "AuthenticationMiddleware"
           LET a == AuthDispatch(c.request.path, c.request.authorization, c.now)
               r == RunStack(stack, i + 1, c, ctx, counts)
           IN  IF a.outcome = "raise"
               THEN [outcome |-> Raised(HTTPException(a.status, <<a.detail>>)),
                     log |-> << >>, trace |-> <<stack[i]>>, counts |-> counts]
               ELSE [r EXCEPT !.trace = <<stack[i]>> \o @]

(***************************************************************************)
(* Requests served                                                         *)
(***************************************************************************)
Request(client_ip, method, content_type, content_length) ==
    [client_ip |-> client_ip, path |-> PathUsers, authorization |-> NoHeader,
     method |-> method, content_type |-> content_type, content_length |-> content_length]

\* requests that differ in the client address
PlainRequests == {Request(ip, "GET", "", NoneOpt) : ip \in ClientIps}

\* a request to the health check
HealthRequest == [Request("10.0.0.1", "GET", "", NoneOpt) EXCEPT !.path = PathHealth]

\* requests that differ in what RequestValidationMiddleware looks at
BodyRequests ==
    { Request("10.0.0.1", "GET", "", NoneOpt),
      Request("10.0.0.1", "POST", "text/plain", Some(120)),
      Request("10.0.0.1", "PUT", "application/json", Some(MAX_FILE_SIZE + 1)) }

\* str(e) of internal failures
ErrorTexts == {<<"connection to db-1:5432 refused">>, <<"relation \"user\" does not exist">>}

\* what a handler does with a request
HandlerResults ==
    { Returned(JSONResponse(200, JsonBody)),
      Returned([JSONResponse(200, JsonBody) EXCEPT
                  !.headers = {<<"X-Frame-Options", "SAMEORIGIN">>,
                               <<"Access-Control-Allow-Origin", "https://app.example.com">>}]),
      Raised(HTTPException(401, <<"Invalid token">>)),
      Raised(HTTPException(404, <<"User not found">>)),
      Raised(PydanticValidationError(<<"1 validation error for UserCreate">>)),
      Raised(ValidationError(<<"Invalid quantity">>, <<"quantity">>)),
      Raised(AuthenticationError(<<"Authentication failed">>)),
      Raised(AuthorizationError(<<"Access denied">>)),
      Raised(NotFoundError("User")),
      Raised(ConflictError(<<"Username already registered">>)),
      Raised(RateLimitError(<<"Rate limit exceeded">>, 60)),
      Raised(ExternalServiceError("smtp", <<"timeout">>)) }
    \cup {Raised(SQLAlchemyError(m)) : m \in ErrorTexts}
    \cup {Raised(UnexpectedException(m)) : m \in ErrorTexts}
    \cup {Raised(DatabaseError(m)) : m \in ErrorTexts}

\* uuid.uuid4() values
CorrelationIds == {"6f1c0a52", "b27e9d14"}

(***************************************************************************)
(* Requests in flight at the same time on the stack setup_middleware       *)
(* builds.  Each request is served by its own task; a task runs until it   *)
(* awaits (`await call_next(request)`), where another task may run.  The   *)
(* context variable correlation_id of app/core/logging.py has one value    *)
(* per task; the tasks call_next starts below a stage copy that value.     *)
(***************************************************************************)
MaxTasks == 2
MaxRequests == 3
Tasks == 1..MaxTasks

\* str(uuid.uuid4()): the n-th value drawn; no two draws are equal
Uuid4(n) ==
    <<"6f1c0a52", "b27e9d14", "0c93e7aa", "d41fb6e3", "59a0c2f7", "e8b31d60">>[n]

\* ContextVar('correlation_id', default=''): the variable in a task's context
DefaultCorrelationId == ""

\* get_correlation_id() called in task
get_correlation_id(ctxs, task) == ctxs[task]

\* variant of set_correlation_id that keeps one value for the whole process
SetCorrelationIdProcessWide(ctxs, task, cid) == [t \in DOMAIN ctxs |-> cid]

\* set_correlation_id(cid) called in task
set_correlation_id(ctxs, task, cid) == [ctxs EXCEPT ![task] = cid]

\* what handlers do in the concurrent model
TaskHandlerResults ==
    { Returned(JSONResponse(200, JsonBody)),
      Raised(ConflictError(<<"Username already registered">>)),
      Raised(UnexpectedException(<<"connection to db-1:5432 refused">>)) }

\* a task: where it is, the local variable correlation_id of
\* CorrelationMiddleware.dispatch, what call_next produced so far and the
\* log events the request emitted
IdleTask ==
    [pc |-> "idle", request |-> Request("none", "", "", NoneOpt),
     correlation_id |-> "", outcome |-> Returned(NoResponse), log |-> << >>]

InitConc ==
    /\ inflight = [assigned |-> 0, task |-> [t \in Tasks |-> IdleTask]]
    /\ cid_ctx = [t \in Tasks |-> DefaultCorrelationId]

ConcUnchanged ==
    /\ UNCHANGED <<now, rq, admitLog, starts>>
    /\ UNCHANGED sessVars
    /\ UNCHANGED callVars
    /\ UNCHANGED pipeVars
    /\ UNCHANGED acctVars
    /\ UNCHANGED bootVars

\* CorrelationMiddleware.dispatch up to `await call_next(request)`
CorrelationDispatch(t, request) ==
    /\ inflight.task[t].pc = "idle"
    /\ inflight.assigned < MaxRequests
    /\ LET correlation_id == Uuid4(inflight.assigned + 1)
       IN  /\ cid_ctx' = set_correlation_id(cid_ctx, t, correlation_id)
           /\ inflight' = [inflight EXCEPT
                             !.assigned = @ + 1,
                             !.task[t] = [IdleTask EXCEPT
                                            !.pc = "LoggingMiddleware",
                                            !.request = request,
                                            !.correlation_id = correlation_id]]
    /\ UNCHANGED request_counts
    /\ ConcUnchanged

\* LoggingMiddleware.dispatch up to `await call_next(request)`
LoggingDispatch(t) ==
    /\ inflight.task[t].pc = "LoggingMiddleware"
    /\ inflight' = [inflight EXCEPT
                      !.task[t].pc = "RateLimitMiddleware",
                      !.task[t].log =
                          Append(@, RequestStarted(get_correlation_id(cid_ctx, t)))]
    /\ UNCHANGED <<request_counts, cid_ctx>>
    /\ ConcUnchanged

\* ErrorHandlingMiddleware and middleware.SecurityMiddleware do nothing before
\* call_next; RateLimitMiddleware.dispatch answers 429 or calls the
\* application, whose handler returns or raises
RateLimitAndApp(t, handled) ==
    /\ inflight.task[t].pc = "RateLimitMiddleware"
    /\ LET ctx == get_correlation_id(cid_ctx, t)
           ip == inflight.task[t].request.client_ip
           d == RateLimitDecision(request_counts, ip, now)
       IN  /\ request_counts' = d.counts
           /\ inflight' = [inflight EXCEPT
                             !.task[t].pc = "ErrorHandlingMiddleware",
                             !.task[t].outcome =
                                 IF d.admitted
                                 THEN SecurityAfter(App(handled))
                                 ELSE SecurityAfter(Returned(RateLimitResponse(ctx))),
                             !.task[t].log =
                                 IF d.admitted THEN @ ELSE Append(@, RateLimitLog(ip, ctx))]
    /\ UNCHANGED cid_ctx
    /\ ConcUnchanged

\* ErrorHandlingMiddleware.dispatch after call_next
ErrorHandlingReturn(t) ==
    /\ inflight.task[t].pc = "ErrorHandlingMiddleware"
    /\ LET ctx == get_correlation_id(cid_ctx, t)
           out == inflight.task[t].outcome
       IN  inflight' = [inflight EXCEPT
                          !.task[t].pc = "LoggingReturn",
                          !.task[t].outcome = ErrorHandlingAfter(out, ctx, environment),
                          !.task[t].log =
                              IF out.raised
                              THEN Append(@, ErrorHandlingLog(out.exc, ctx))
                              ELSE @]
    /\ UNCHANGED <<request_counts, cid_ctx>>
    /\ ConcUnchanged

\* LoggingMiddleware.dispatch after call_next
LoggingReturn(t) ==
    /\ inflight.task[t].pc = "LoggingReturn"
    /\ inflight' = [inflight EXCEPT
                      !.task[t].pc = "CorrelationReturn",
                      !.task[t].log =
                          Append(@, RequestClosed(inflight.task[t].outcome,
                                                  get_correlation_id(cid_ctx, t), 0))]
    /\ UNCHANGED <<request_counts, cid_ctx>>
    /\ ConcUnchanged

\* CorrelationMiddleware.dispatch after call_next: the header is set from the
\* local variable
CorrelationReturn(t) ==
    /\ inflight.task[t].pc = "CorrelationReturn"
    /\ inflight' = [inflight EXCEPT
                      !.task[t].pc = "responded",
                      !.task[t].outcome =
                          CorrelationAfter(@, inflight.task[t].correlation_id)]
    /\ UNCHANGED <<request_counts, cid_ctx>>
    /\ ConcUnchanged

\* the response is sent and the task ends, and its context with it
TaskDone(t) ==
    /\ inflight.task[t].pc = "responded"
    /\ inflight' = [inflight EXCEPT !.task[t] = IdleTask]
    /\ cid_ctx' = [cid_ctx EXCEPT ![t] = DefaultCorrelationId]
    /\ UNCHANGED request_counts
    /\ ConcUnchanged

NoServed ==
    [stack |-> << >>, served |-> FALSE,
     request |-> Request("none", "", "", NoneOpt), correlation_id |-> "",
     handled |-> Returned(NoResponse), outcome |-> Returned(NoResponse),
     log |-> << >>, trace |-> << >>]

InitPipe ==
    /\ now = 0
    /\ InitAccounts
    /\ InitBoot
    /\ InitConc
    /\ InitRate
    /\ InitSession
    /\ InitCalls
    /\ InitMw
    /\ environment \in Environments
    /\ pipe = NoServed

\* One request served by a stack, start to end.
Serve(stack, request, handled, correlation_id) ==
    LET c == [request |-> request, correlation_id |-> correlation_id,
              handled |-> handled, env |-> environment, now |-> now]
        r == RunStack(stack, 1, c, "", request_counts)
    IN  /\ pipe' = [stack |-> stack, served |-> TRUE, request |-> request,
                    correlation_id |-> correlation_id, handled |-> handled,
                    outcome |-> r.outcome, log |-> r.log, trace |-> r.trace]
        /\ request_counts' = r.counts
        /\ UNCHANGED <<now, rq, admitLog, starts, environment>>
        /\ UNCHANGED acctVars
        /\ UNCHANGED bootVars
        /\ UNCHANGED concVars
        /\ UNCHANGED sessVars
        /\ UNCHANGED callVars

\* a request to the application as main.py serves it
ServeApp(request, handled) == Serve(ServedApp, request, handled, "")

\* a request to the callable setup_middleware returns
ServeSetupMiddleware(request, handled, correlation_id) ==
    Serve(setup_middleware, request, handled, correlation_id)

\* a request to the callable setup_security_middleware returns
ServeSetupSecurity(request, handled) ==
    Serve(setup_security_middleware, request, handled, "")

(***************************************************************************)
(* RBAC-guarded requests and the role endpoints                            *)
(* (app/core/rbac.py, app/api/rbac.py, app/api/role.py, app/api/user.py)   *)
(***************************************************************************)
MaxRoleId == 2

RoleNames == {"admin", "clerk", "auditor"}

\* permission lists of the guards: the single-permission guards and the two
\* composite guards of app/core/rbac.py, and a two-permission list
PermissionLists ==
    { <<"users:read">>, <<"counts:read">>,
      <<"inventory:create", "inventory:update", "inventory:delete">>,
      <<"counts:create", "counts:update", "counts:delete", "counts:approve">>,
      <<"inventory:read", "reports:read">> }

\* bearer tokens presented to the RBAC endpoints: the minted ones and one
\* that does not verify
RbacTokens == issued \cup {t \in CraftedTokens : ~t.sig}

GuardKinds == {"require_permission", "require_any_permission", "require_all_permissions"}

\* The state after the two seeded accounts logged in at time 0
InitRbac ==
    /\ now = 0
    /\ InitAccounts
    /\ InitBoot
    /\ InitConc
    /\ InitRate
    /\ InitCalls
    /\ InitMw
    /\ ticks = 0
    /\ users = [id \in UserIds |-> [is_active |-> TRUE, role_id |-> Some(id)]]
    /\ roles = (1 :> "admin" @@ 2 :> "clerk")
    /\ issued = {CreateAccessToken(AccessData(id, users),
                                   Some(Minutes(ACCESS_TOKEN_EXPIRE_MINUTES)), 0) :
                    id \in UserIds}
    /\ last = NoRequest
    /\ emitted = << >>
    /\ environment = "development"
    /\ pipe = NoServed

\* A request to an endpoint that only reads, behind a permission guard
\* (GET /users/, GET /rbac/roles, ...): the guard decides the response.
GuardedRead(kind, permissions, token) ==
    /\ UNCHANGED pipeVars
    /\ UNCHANGED bootVars
    /\ UNCHANGED concVars
    /\ UNCHANGED acctVars
    /\ last' = [Response(kind, token, now,
                         Guard(kind, permissions, token, users, roles, now), {})
                  EXCEPT !.required = permissions]
    /\ emitted' = << >>
    /\ UNCHANGED <<now, ticks, users, roles, issued>>
    /\ UNCHANGED rateVars
    /\ UNCHANGED callVars

\* GET /rbac/my-permissions: get_current_user, then get_user_permissions
MyPermissions(token) ==
    /\ UNCHANGED pipeVars
    /\ UNCHANGED bootVars
    /\ UNCHANGED concVars
    /\ UNCHANGED acctVars
    /\ LET res == GetCurrentUser(token, users, now)
       IN  last' = [Response("my_permissions", token, now, res, {})
                      EXCEPT !.granted = IF res.status = 200
                                         THEN GetUserPermissions(res.user, roles)
                                         ELSE {}]
    /\ emitted' = << >>
    /\ UNCHANGED <<now, ticks, users, roles, issued>>
    /\ UNCHANGED rateVars
    /\ UNCHANGED callVars

\* select(Role).where(Role.name == role_name).first()
RoleIdByName(role_name, rs) ==
    IF \E id \in DOMAIN rs : rs[id] = role_name
    THEN Some(CHOOSE id \in DOMAIN rs :
                 rs[id] = role_name /\ \A other \in DOMAIN rs : rs[other] = role_name => id <= other)
    ELSE NoneOpt

\* the primary key the database gives a new role row
NextRoleId(rs) ==
    IF DOMAIN rs = {} THEN 1
    ELSE 1 + CHOOSE id \in DOMAIN rs : \A other \in DOMAIN rs : other <= id

\* POST /rbac/users/{user_id}/role/{role_name}, guarded by users:update
AssignRoleToUser(token, user_id, role_name) ==
    /\ UNCHANGED pipeVars
    /\ UNCHANGED bootVars
    /\ UNCHANGED concVars
    /\ UNCHANGED acctVars
    /\ NextRoleId(roles) <= MaxRoleId \/ RoleIdByName(role_name, roles) # NoneOpt
    /\ LET res == Guard("require_permission", <<"users:update">>, token, users, roles, now)
           found == RoleIdByName(role_name, roles)
           role_id == IF found # NoneOpt THEN found[1] ELSE NextRoleId(roles)
       IN  IF res.status # 200
           THEN /\ last' = Response("assign_role", token, now, res, {})
                /\ UNCHANGED <<users, roles>>
           ELSE IF user_id \notin DOMAIN users
           THEN /\ last' = Response("assign_role", token, now, NotFound("User not found"), {})
                /\ UNCHANGED <<users, roles>>
           ELSE IF role_name \notin DOMAIN ROLE_PERMISSIONS
           THEN /\ last' = Response("assign_role", token, now, NotFound("Role not found"), {})
                /\ UNCHANGED <<users, roles>>
           ELSE /\ roles' = IF found # NoneOpt THEN roles
                            ELSE [id \in DOMAIN roles \cup {role_id} |->
                                     IF id = role_id THEN role_name ELSE roles[id]]
                /\ users' = [users EXCEPT ![user_id].role_id = Some(role_id)]
                /\ last' = Response("assign_role", token, now, Passed(res.user), {})
    /\ emitted' = << >>
    /\ UNCHANGED <<now, ticks, issued>>
    /\ UNCHANGED rateVars
    /\ UNCHANGED callVars

\* DELETE /rbac/users/{user_id}/role, guarded by users:update
RemoveRoleFromUser(token, user_id) ==
    /\ UNCHANGED pipeVars
    /\ UNCHANGED bootVars
    /\ UNCHANGED concVars
    /\ UNCHANGED acctVars
    /\ LET res == Guard("require_permission", <<"users:update">>, token, users, roles, now)
       IN  IF res.status # 200
           THEN /\ last' = Response("remove_role", token, now, res, {})
                /\ UNCHANGED users
           ELSE IF user_id \notin DOMAIN users
           THEN /\ last' = Response("remove_role", token, now, NotFound("User not found"), {})
                /\ UNCHANGED users
           ELSE /\ users' = [users EXCEPT ![user_id].role_id = NoneOpt]
                /\ last' = Response("remove_role", token, now, Passed(res.user), {})
    /\ emitted' = << >>
    /\ UNCHANGED <<now, ticks, roles, issued>>
    /\ UNCHANGED rateVars
    /\ UNCHANGED callVars

\* PUT /roles/{role_id} with a new name: no dependency guards this router
UpdateRole(role_id, name) ==
    /\ UNCHANGED pipeVars
    /\ UNCHANGED bootVars
    /\ UNCHANGED concVars
    /\ UNCHANGED acctVars
    /\ IF role_id \notin DOMAIN roles
       THEN /\ last' = Response("update_role", NoToken, now, NotFound("Role not found"), {})
            /\ UNCHANGED roles
       ELSE /\ roles' = [roles EXCEPT ![role_id] = name]
            /\ last' = Response("update_role", NoToken, now, Passed(NoUser), {})
    /\ emitted' = << >>
    /\ UNCHANGED <<now, ticks, users, issued>>
    /\ UNCHANGED rateVars
    /\ UNCHANGED callVars

\* DELETE /roles/{role_id}: no dependency guards this router
DeleteRole(role_id) ==
    /\ UNCHANGED pipeVars
    /\ UNCHANGED bootVars
    /\ UNCHANGED concVars
    /\ UNCHANGED acctVars
    /\ IF role_id \notin DOMAIN roles
       THEN /\ last' = Response("delete_role", NoToken, now, NotFound("Role not found"), {})
            /\ UNCHANGED roles
       ELSE /\ roles' = [id \in DOMAIN roles \ {role_id} |-> roles[id]]
            /\ last' = Response("delete_role", NoToken, now, NoContent, {})
    /\ emitted' = << >>
    /\ UNCHANGED <<now, ticks, users, issued>>
    /\ UNCHANGED rateVars
    /\ UNCHANGED callVars

\* a store in which the hash of the second account is any stored value, a
\* malformed one included (a row not written by hash_password)
InitPassword ==
    /\ now = 0
    /\ InitBoot
    /\ InitConc
    /\ InitRate
    /\ InitSession
    /\ InitCalls
    /\ InitMw
    /\ environment = "development"
    /\ pipe = NoServed
    /\ \E hashed_password \in StoredHashes :
          accounts = (1 :> [username |-> "wsadmin", email |-> "wsadmin@wingstop.com",
                            hashed_password |-> HashPassword("SecurePassword123!", 1)]
                      @@ 2 :> [username |-> "clerk01", email |-> "clerk01@wingstop.com",
                               hashed_password |-> hashed_password])
    /\ areq = NoAccountRequest
    /\ pwcall = NoPasswordCall
    /\ analysis = NoAnalysis

Init ==
    /\ now = 0
    /\ InitAccounts
    /\ InitBoot
    /\ InitConc
    /\ InitRate
    /\ InitSession
    /\ InitCalls
    /\ InitMw
    /\ environment = "development"
    /\ pipe = NoServed

NextRate ==
    \/ \E s \in Slots, ip \in ClientIps : RateLimitDispatch(s, ip)
    \/ \E s \in Slots : CallNextReturns(s)
    \/ \E d \in RateDelays : TickRate(d)

SpecRate == Init /\ [][NextRate]_vars

NextSession ==
    \/ \E id \in UserIds, password_ok \in BOOLEAN : Login(id, password_ok)
    \/ \E token \in Presentable : Refresh(token)
    \/ \E token \in Presentable : Me(token)
    \/ \E token \in Presentable, is_active \in BOOLEAN : UpdateProfile(token, is_active)
    \/ \E token \in Presentable, user_id \in UserIds : DeleteUser(token, user_id)
    \/ \E d \in AuthDelays : TickAuth(d)

SpecSession == Init /\ [][NextSession]_vars

NextToken ==
    \/ \E data \in ClaimMaps, expires_delta \in Ttls :
          CallCreateAccessToken(data, expires_delta)
    \/ CallVerifyToken
    \/ \E d \in TokenDelays : TickToken(d)

SpecToken == Init /\ [][NextToken]_vars

NextAuthMw ==
    \/ \E path \in RequestPaths, header \in HeadersWith(MintedNow \cup CraftedTokens) :
          AuthMiddlewareDispatch(path, header)
    \/ \E d \in AuthDelays : TickAuth(d)

SpecAuthMw == Init /\ [][NextAuthMw]_vars

NextRbac ==
    \/ \E kind \in GuardKinds, permissions \in PermissionLists, token \in RbacTokens :
          GuardedRead(kind, permissions, token)
    \/ \E token \in RbacTokens : MyPermissions(token)
    \/ \E token \in RbacTokens, user_id \in UserIds, role_name \in RoleNames :
          AssignRoleToUser(token, user_id, role_name)
    \/ \E token \in RbacTokens, user_id \in UserIds : RemoveRoleFromUser(token, user_id)
    \/ \E role_id \in 1..MaxRoleId, name \in RoleNames : UpdateRole(role_id, name)
    \/ \E role_id \in 1..MaxRoleId : DeleteRole(role_id)

SpecRbac == InitRbac /\ [][NextRbac]_vars

NextAccounts ==
    \/ \E username \in Usernames, password \in Passwords :
          LoginWithCredentials(username, password)
    \/ \E username \in {"newuser123", "wsadmin", "ab"}, email \in Emails,
          password \in {"SecurePassword123!", "password"},
          role_id \in {NoneOpt, Some(1)} :
          Register(username, email, password, role_id, 1)
    \/ \E token \in Presentable, current_password \in {"SecurePassword123!", "password"},
          new_password \in {"OtherPassword456!", "123"} :
          ChangePassword(token, current_password, new_password, 2)
    \/ Logout
    \/ \E token \in Presentable : Me(token)
    \/ \E token \in Presentable, is_active \in BOOLEAN : UpdateProfile(token, is_active)

SpecAccounts == Init /\ [][NextAccounts]_vars

NextStrength == \E chars \in AnalysedPasswords : AnalyzePassword(chars)

SpecStrength == Init /\ [][NextStrength]_vars

NextPassword ==
    \/ \E password \in Passwords, hashed_password \in StoredHashes :
          CallVerifyPassword(password, hashed_password)
    \/ \E username \in Usernames, password \in Passwords :
          LoginWithCredentials(username, password)

SpecPassword == InitPassword /\ [][NextPassword]_vars

\* the process from its creation: Settings(), uvicorn.run, requests
InitStartup ==
    /\ now = 0
    /\ InitAccounts
    /\ InitConc
    /\ InitRate
    /\ InitSession
    /\ InitCalls
    /\ InitMw
    /\ \E deployment \in Deployments : proc = Process(deployment, "created", Unset)
    /\ environment = DEFAULT_ENVIRONMENT
    /\ pipe = NoServed

\* a request reaches the application once the server runs
ServeRunning(request, handled) ==
    /\ proc.phase = "running"
    /\ ServeApp(request, handled)

NextStartup ==
    \/ LoadSettings
    \/ StartServer
    \/ \E request \in PlainRequests \cup {HealthRequest}, handled \in TaskHandlerResults :
          ServeRunning(request, handled)

SpecStartup == InitStartup /\ [][NextStartup]_vars

NextCorrelation ==
    \/ \E t \in Tasks : CorrelationDispatch(t, Request("10.0.0.1", "GET", "", NoneOpt))
    \/ \E t \in Tasks : LoggingDispatch(t)
    \/ \E t \in Tasks, handled \in TaskHandlerResults : RateLimitAndApp(t, handled)
    \/ \E t \in Tasks : ErrorHandlingReturn(t)
    \/ \E t \in Tasks : LoggingReturn(t)
    \/ \E t \in Tasks : CorrelationReturn(t)
    \/ \E t \in Tasks : TaskDone(t)

SpecCorrelation == InitPipe /\ [][NextCorrelation]_vars

NextPipeline ==
    \/ \E handled \in HandlerResults : ServeApp(HealthRequest, handled)
    \/ \E request \in PlainRequests, handled \in HandlerResults,
          correlation_id \in CorrelationIds :
          ServeSetupMiddleware(request, handled, correlation_id)
    \/ \E request \in BodyRequests, handled \in HandlerResults :
          ServeSetupSecurity(request, handled)

SpecPipeline == InitPipe /\ [][NextPipeline]_vars

(***************************************************************************)
(* Properties of the rate limiter                                          *)
(***************************************************************************)
\* number of requests of ip passed downstream at times t with lo <= t < hi
AdmittedBetween(ip, lo, hi) ==
    Cardinality({i \in DOMAIN admitLog[ip] : lo <= admitLog[ip][i] /\ admitLog[ip][i] < hi})

\* C9: every stored entry has 1 <= count <= limit, and for every window (an
\* entry created at s) the requests of that key admitted in [s, s + 60) never
\* exceed the configured limit.
C9_CountWithinLimit ==
    /\ \A ip \in DOMAIN request_counts :
          /\ 1 <= request_counts[ip].count
          /\ request_counts[ip].count <= RATE_LIMIT_PER_MINUTE
    /\ \A ip \in ClientIps : \A s \in starts[ip] :
          AdmittedBetween(ip, s, s + WINDOW_SECONDS) <= RATE_LIMIT_PER_MINUTE

\* a key is at the limit in a window that is not the first one, and a request
\* of that key has been answered 429
C9_Witness ==
    \E ip \in DOMAIN request_counts :
        /\ request_counts[ip].count = RATE_LIMIT_PER_MINUTE
        /\ request_counts[ip].timestamp >= WINDOW_SECONDS
        /\ \E s \in Slots : rq[s].ip = ip /\ rq[s].status = 429

\* C10: with requests of one key in flight concurrently no increment is lost:
\* the counter of a live entry equals the number of requests admitted since
\* the entry was created, so requests arriving together at count = limit - 1
\* are not both admitted.
C10_NoLostIncrement ==
    \A ip \in DOMAIN request_counts :
        request_counts[ip].timestamp > WindowStart(now) =>
            /\ request_counts[ip].count =
                   AdmittedBetween(ip, request_counts[ip].timestamp, now + 1)
            /\ AdmittedBetween(ip, request_counts[ip].timestamp, now + 1)
                   <= RATE_LIMIT_PER_MINUTE

\* two requests of one key met in the stage at the same instant with one
\* admission left: one is downstream, the other was answered 429
C10_Witness ==
    \E a, b \in Slots : \E ip \in DOMAIN request_counts :
        /\ a # b
        /\ rq[a].ip = ip /\ rq[a].pc = "downstream"
        /\ rq[b].ip = ip /\ rq[b].status = 429
        /\ request_counts[ip].count = RATE_LIMIT_PER_MINUTE
        /\ Len(admitLog[ip]) > 0 /\ admitLog[ip][Len(admitLog[ip])] = now

(***************************************************************************)
(* Properties of tokens and sessions                                       *)
(***************************************************************************)
\* operations behind Depends(get_current_user) or a permission guard
AccessTokenOps == {"me", "update_profile", "delete_user"}

\* C2: a refresh token presented as the bearer credential to an operation that
\* requires an access token is always answered 401.
C2_RefreshTokenRejected ==
    (last.op \in AccessTokenOps /\ last.tok.type = "refresh") => last.status = 401

\* C4: refresh succeeds only for a verified, unexpired token of type refresh;
\* a token of another type or without a type claim is answered 401, and a
\* rejected refresh mints no access token and emits no audit event.
C4_RefreshOnlyWithRefreshToken ==
    [][ (last' # last /\ last'.op = "refresh") =>
          /\ last'.status \in {200, 401}
          /\ last'.status = 200 =>
                /\ last'.tok.sig
                /\ ~Expired(last'.tok.exp, now)
                /\ last'.tok.type = "refresh"
                /\ Cardinality(last'.minted) = 1
                /\ \A t \in last'.minted : t.type = "access"
                /\ emitted' = <<AuditEvent("token_refreshed", ParseInt(last'.tok.sub))>>
          /\ last'.tok.type # "refresh" => last'.status = 401
          /\ last'.status = 401 =>
                /\ last'.minted = {}
                /\ issued' = issued
                /\ emitted' = << >> ]_vars

\* a minted, unexpired access token was presented to refresh and answered 401
C4_Witness ==
    /\ last.op = "refresh"
    /\ last.tok \in issued
    /\ last.tok.type = "access"
    /\ ~Expired(last.tok.exp, last.at)
    /\ last.status = 401
    /\ emitted = << >>

\* the subject of a token is missing from the user store or inactive
SubjectGone(token, us) ==
    /\ IsIntLiteral(token.sub)
    /\ \/ ParseInt(token.sub) \notin DOMAIN us
       \/ ~us[ParseInt(token.sub)].is_active

\* C5: a correctly signed, unexpired token (an access token in particular)
\* whose subject was deleted or deactivated is answered 401 by every
\* authenticated operation and by refresh, from the first request after the
\* change.
C5_GoneSubjectRejected ==
    [][ ( /\ last' # last
          /\ last'.op \in AccessTokenOps \cup {"refresh"}
          /\ last'.tok.sig
          /\ ~Expired(last'.tok.exp, now)
          /\ SubjectGone(last'.tok, users) )
        => last'.status = 401 ]_vars

\* a minted, unexpired access token of a deleted or deactivated user was
\* presented to an authenticated operation and answered 401
C5_Witness ==
    /\ last.op \in AccessTokenOps
    /\ last.tok \in issued
    /\ last.tok.type = "access"
    /\ ~Expired(last.tok.exp, last.at)
    /\ last.status = 401
    /\ last.detail \in {<<"User not found">>, <<"User is inactive">>}

(***************************************************************************)
(* Properties of direct token calls and of the authentication middleware   *)
(***************************************************************************)
\* C3: for every claims map and ttl, verify_token on the token made by
\* create_access_token returns the claims with type access at every time
\* before ttl has elapsed since issuance, and fails with "Token has expired"
\* at every time after.
C3_AccessTokenLifetime ==
    (verified.called /\ created.expires_delta # NoneOpt) =>
        /\ verified.at < created.at + created.expires_delta[1] =>
              /\ verified.ok
              /\ verified.payload.sub = created.data.sub
              /\ verified.payload.role_id = created.data.role_id
              /\ verified.payload.type = "access"
        /\ verified.at > created.at + created.expires_delta[1] =>
              /\ ~verified.ok
              /\ verified.detail = "Token has expired"

\* the paths the allowlist names: root, health checks, API docs
PublicAllowlist == {PathRoot, PathHealth, PathHealthDb, PathDocs, PathOpenapi, PathRedoc}

BearerVerifies(header, utcnow) ==
    /\ header.present
    /\ Len(header.words) = 2
    /\ Lower(header.words[1].text) = "bearer"
    /\ VerifyToken(header.words[2].tok, utcnow).ok

\* C1: a request whose path is not on the public allowlist is passed
\* downstream only with a Bearer header whose token verifies; otherwise the
\* stage answers 401 and the handler is not invoked. (Stated for the paths
\* outside /api/v1/public, which the code exempts when no header is sent.)
C1_AuthenticationRequired ==
    ( /\ mw.op = "dispatch"
      /\ mw.path \notin PublicAllowlist
      /\ ~StartsWith(mw.path, PathPublic) ) =>
        IF BearerVerifies(mw.header, mw.at)
        THEN mw.outcome = "call_next"
        ELSE mw.outcome = "raise" /\ mw.status = 401

(***************************************************************************)
(* Properties of the RBAC engine                                           *)
(***************************************************************************)
BuiltInRoles == {"admin", "manager", "clerk", "viewer"}
GuardedOps == GuardKinds \cup {"assign_role", "remove_role"}
Items(list) == {list[i] : i \in DOMAIN list}

\* the user has no role id, or it does not resolve, or it resolves to a role
\* whose name is not built in
NoGrantingRole(user, rs) ==
    \/ user.role_id = NoneOpt
    \/ user.role_id[1] \notin DOMAIN rs
    \/ rs[user.role_id[1]] \notin BuiltInRoles

\* C6: get_user_permissions returns the empty set when the user has no role
\* id, the role id does not resolve, or the role's name is not built in; it
\* otherwise returns a whole role set, never part of one; and a permission
\* guard (requiring at least one permission) then answers 403.
C6_DefaultDeny ==
    /\ [](\A id \in DOMAIN users :
            LET granted == GetUserPermissions(UserOf(id, users), roles)
            IN  /\ NoGrantingRole(users[id], roles) => granted = {}
                /\ \/ granted = {}
                   \/ \E name \in BuiltInRoles : granted = ROLE_PERMISSIONS[name])
    /\ [][ LET auth == GetCurrentUser(last'.tok, users, now)
           IN  ( /\ last' # last
                 /\ last'.op \in GuardedOps
                 /\ auth.status = 200
                 /\ NoGrantingRole(auth.user, roles) )
               => last'.status = 403 ]_vars

\* a guard answered 403 to an authenticated user whose role id does not
\* resolve in the role store
C6_Witness ==
    /\ last.op \in GuardKinds
    /\ last.status = 403
    /\ GetCurrentUser(last.tok, users, now).status = 200
    /\ GetCurrentUser(last.tok, users, now).user.role_id # NoneOpt
    /\ GetCurrentUser(last.tok, users, now).user.role_id[1] \notin DOMAIN roles

\* whether a permission set satisfies the requirement of a guard
Satisfies(kind, required, granted) ==
    CASE kind = "require_permission" -> required[1] \in granted
      [] kind = "require_any_permission" -> Items(required) \cap granted # {}
      [] OTHER -> Items(required) \subseteq granted

NamedIn(kind, required) ==
    IF kind = "require_permission" THEN {required[1]} ELSE Items(required)

\* C7: a guard returns the authenticated user unchanged when the user's
\* permission set satisfies the requirement, and otherwise answers 403 with
\* a message naming the required permission(s); either way it writes nothing
\* to the user store or the role store.
C7_GuardPassesOrForbids ==
    [][ (last' # last /\ last'.op \in GuardKinds) =>
          /\ users' = users
          /\ roles' = roles
          /\ LET auth == GetCurrentUser(last'.tok, users, now)
             IN  auth.status = 200 =>
                   IF Satisfies(last'.op, last'.required,
                                GetUserPermissions(auth.user, roles))
                   THEN /\ last'.status = 200
                        /\ last'.user = auth.user
                        /\ last'.user = UserOf(auth.user.id, users')
                   ELSE /\ last'.status = 403
                        /\ NamedIn(last'.op, last'.required) \subseteq Items(last'.detail) ]_vars

\* an any-guard over several permissions let through a user who holds some
\* but not all of them
C7_Witness ==
    /\ last.op = "require_any_permission"
    /\ last.status = 200
    /\ last.user.id \in DOMAIN users
    /\ ~(Items(last.required) \subseteq GetUserPermissions(last.user, roles))

\* the role name the user's role id resolves to, "" when there is none
ResolvedRoleName(user, rs) ==
    IF user.role_id = NoneOpt \/ user.role_id = Some(0) THEN ""
    ELSE IF user.role_id[1] \notin DOMAIN rs THEN ""
    ELSE rs[user.role_id[1]]

ClerkPermissions ==
    {"inventory:read", "counts:read", "counts:create", "counts:update", "reports:read"}

ExpectedGrant(user, rs, granted) ==
    /\ ResolvedRoleName(user, rs) = "admin" =>
          granted = PERMISSIONS /\ Cardinality(granted) = 27
    /\ ResolvedRoleName(user, rs) = "clerk" => granted = ClerkPermissions
    /\ user.role_id = NoneOpt => granted = {}

\* C8: for a user whose role resolves to admin the permissions are the whole
\* catalog, for clerk exactly the five clerk permissions, for a user with no
\* role the empty set -- for every stored user, and in every answer of
\* GET /rbac/my-permissions.
C8_RoleGrants ==
    /\ \A id \in DOMAIN users :
          ExpectedGrant(UserOf(id, users), roles,
                        GetUserPermissions(UserOf(id, users), roles))
    /\ (last.op = "my_permissions" /\ last.status = 200) =>
          ExpectedGrant(last.user, roles, last.granted)

\* my-permissions answered a clerk, an admin is stored, and a user without a
\* role is stored
C8_Witness ==
    /\ last.op = "my_permissions"
    /\ last.status = 200
    /\ ResolvedRoleName(last.user, roles) = "clerk"
    /\ last.granted = ClerkPermissions
    /\ \E id \in DOMAIN users : ResolvedRoleName(UserOf(id, users), roles) = "admin"

\* the key has an entry whose window is still open at time t
LiveAt(counts, key, t) ==
    key \in DOMAIN counts /\ counts[key].timestamp > WindowStart(t)

\* C11: with limit L, the call that finds no open window for its key is
\* allowed and leaves the entry (1, now); the k-th call inside an open window
\* is allowed for k <= L and leaves L - k remaining; every further call in
\* that window is refused with 0 remaining.  k is counted from the requests
\* actually passed downstream since the window opened.
C11_AllowanceSequence ==
    \A ip \in ClientIps :
        LET d == RateLimitDecision(request_counts, ip, now)
            k == IF LiveAt(request_counts, ip, now)
                 THEN AdmittedBetween(ip, request_counts[ip].timestamp, now + 1)
                 ELSE 0
        IN  /\ ~LiveAt(request_counts, ip, now) =>
                  /\ d.admitted
                  /\ d.counts[ip] = [count |-> 1, timestamp |-> now]
                  /\ GetRemainingRequests(d.counts, ip, now) = RATE_LIMIT_PER_MINUTE - 1
            /\ (LiveAt(request_counts, ip, now) /\ k < RATE_LIMIT_PER_MINUTE) =>
                  /\ d.admitted
                  /\ GetRemainingRequests(d.counts, ip, now) = RATE_LIMIT_PER_MINUTE - (k + 1)
            /\ (LiveAt(request_counts, ip, now) /\ k >= RATE_LIMIT_PER_MINUTE) =>
                  /\ ~d.admitted
                  /\ GetRemainingRequests(d.counts, ip, now) = 0

\* a key was refused in an earlier window, and the first request after that
\* window elapsed was passed downstream with the entry reset to (1, now)
C11_Witness ==
    \E a, b \in Slots : \E ip \in DOMAIN request_counts :
        /\ rq[a].ip = ip /\ rq[a].status = 429
        /\ rq[b].ip = ip /\ rq[b].pc = "downstream"
        /\ request_counts[ip] = [count |-> 1, timestamp |-> now]
        /\ now >= WINDOW_SECONDS

(***************************************************************************)
(* Properties of the request pipeline                                      *)
(***************************************************************************)
Stages(stack) == {stack[i] : i \in DOMAIN stack}
Ran(trace) == {trace[i] : i \in DOMAIN trace}

\* the key has used its whole allowance in the window open at time t
AtLimit(counts, key, t) ==
    LiveAt(counts, key, t) /\ counts[key].count >= RATE_LIMIT_PER_MINUTE

\* C12: a request that reaches the RateLimit stage when its key is at the
\* limit in the open window is answered 429 in the error envelope with
\* details.retry_after, and neither the application nor any stage below the
\* RateLimit stage runs for it.
C12_LimitShortCircuits ==
    [][ ( /\ pipe'.served
          /\ "RateLimitMiddleware" \in Stages(pipe'.stack)
          /\ AtLimit(request_counts, pipe'.request.client_ip, now) )
        => /\ ~pipe'.outcome.raised
           /\ pipe'.outcome.response.status_code = 429
           /\ pipe'.outcome.response.body.shape = "envelope"
           /\ pipe'.outcome.response.body.code = "RATE_LIMIT_ERROR"
           /\ \E dt \in pipe'.outcome.response.body.details :
                 dt.key = "retry_after" /\ dt.number > 0
           /\ pipe'.trace[Len(pipe'.trace)] = "RateLimitMiddleware"
           /\ "app" \notin Ran(pipe'.trace)
           /\ "AuthenticationMiddleware" \notin Ran(pipe'.trace)
           /\ request_counts'[pipe'.request.client_ip] =
                  request_counts[pipe'.request.client_ip] ]_vars

\* a request was answered 429 by the RateLimit stage while another key still
\* had allowance
C12_Witness ==
    /\ pipe.served
    /\ pipe.outcome.response.status_code = 429
    /\ pipe.trace[Len(pipe.trace)] = "RateLimitMiddleware"
    /\ AtLimit(request_counts, pipe.request.client_ip, now)
    /\ \E ip \in DOMAIN request_counts : ~AtLimit(request_counts, ip, now)

(***************************************************************************)
(* Rate-limit state is per key                                             *)
(***************************************************************************)
\* what a key's state amounts to at time t: its live entry, or none
LiveEntry(counts, key, t) ==
    IF LiveAt(counts, key, t) THEN <<counts[key]>> ELSE << >>

\* what the next request of the key would get at time t
NextOutcome(counts, key, t) ==
    LET d == RateLimitDecision(counts, key, t)
    IN  [admitted |-> d.admitted, entry |-> LiveEntry(d.counts, key, t)]

\* C13: a step that is not a request of key B (requests of other keys, in any
\* number) leaves B's live entry, B's remaining allowance and the outcome of
\* B's next request, now or later, unchanged; and a key with no live entry is
\* admitted with limit - 1 remaining whatever the other keys have used.
C13_PerKeyState ==
    /\ [](\A b \in ClientIps :
            ~LiveAt(request_counts, b, now) =>
               LET d == RateLimitDecision(request_counts, b, now)
               IN  /\ d.admitted
                   /\ GetRemainingRequests(d.counts, b, now) = RATE_LIMIT_PER_MINUTE - 1)
    /\ [][ \A b \in ClientIps :
             ( /\ now' = now
               /\ \A s \in Slots : rq'[s] = rq[s] \/ rq'[s].ip # b )
             => /\ LiveEntry(request_counts', b, now) = LiveEntry(request_counts, b, now)
                /\ GetRemainingRequests(request_counts', b, now)
                      = GetRemainingRequests(request_counts, b, now)
                /\ \A t \in {now, now + 30, now + WINDOW_SECONDS} :
                      NextOutcome(request_counts', b, t) = NextOutcome(request_counts, b, t)
          ]_vars

\* one key is at its limit and has been refused, and another key was admitted
\* just now on a fresh entry
C13_Witness ==
    \E a, b \in ClientIps :
        /\ a # b
        /\ AtLimit(request_counts, a, now)
        /\ \E s \in Slots : rq[s].ip = a /\ rq[s].status = 429
        /\ LiveAt(request_counts, b, now)
        /\ request_counts[b] = [count |-> 1, timestamp |-> now]
        /\ \E s \in Slots : rq[s].ip = b /\ rq[s].pc = "downstream"

(***************************************************************************)
(* Order of the stages                                                     *)
(***************************************************************************)
\* the stage of the pipeline a middleware class stands for
StageOf(class) ==
    CASE class = "CorrelationMiddleware" -> "Correlation"
      [] class = "LoggingMiddleware" -> "Logging"
      [] class = "ErrorHandlingMiddleware" -> "ErrorNormalization"
      [] class = "middleware.SecurityMiddleware" -> "SecurityHeaders"
      [] class = "security.SecurityMiddleware" -> "SecurityHeaders"
      [] class = "RateLimitMiddleware" -> "RateLimit"
      [] class = "AuthenticationMiddleware" -> "Authentication"
      [] OTHER -> class

FixedOrder ==
    <<"Correlation", "Logging", "ErrorNormalization", "SecurityHeaders",
      "RateLimit", "Authentication">>

\* the six stages among those that ran, in the order they ran
RECURSIVE StagesRun(_)
StagesRun(trace) ==
    IF trace = << >>
    THEN << >>
    ELSE IF \E i \in DOMAIN FixedOrder : FixedOrder[i] = StageOf(Head(trace))
    THEN <<StageOf(Head(trace))>> \o StagesRun(Tail(trace))
    ELSE StagesRun(Tail(trace))

\* C14: every request served traverses Correlation, Logging,
\* ErrorNormalization, SecurityHeaders, RateLimit, Authentication in that
\* order (all six unless the RateLimit stage answers 429 itself); the first
\* log event already carries a correlation id; Authentication runs below
\* ErrorNormalization.
C14_FixedStageOrder ==
    pipe.served =>
      LET ran == StagesRun(pipe.trace)
      IN  /\ Len(ran) >= 5
          /\ ran = SubSeq(FixedOrder, 1, Len(ran))
          /\ (Len(ran) = 5 => pipe.outcome.response.status_code = 429)
          /\ (pipe.log # << >> => pipe.log[1].correlation_id # "")
          /\ ("app" \in Ran(pipe.trace) => Len(ran) = 6)

(***************************************************************************)
(* Failure responses                                                       *)
(***************************************************************************)
\* the request ends in a failure: an exception leaves the stack, or the
\* response has an error status
Failed(served) ==
    served.outcome.raised \/ served.outcome.response.status_code >= 400

\* the status code the error taxonomy designates for a failure
DesignatedStatus(exc) ==
    CASE exc.class = "ValidationError" -> {400, 422}
      [] exc.class = "PydanticValidationError" -> {400, 422}
      [] exc.class = "AuthenticationError" -> {401}
      [] exc.class = "AuthorizationError" -> {403}
      [] exc.class = "NotFoundError" -> {404}
      [] exc.class = "ConflictError" -> {409}
      [] exc.class = "RateLimitError" -> {429}
      [] exc.class = "DatabaseError" -> {500}
      [] exc.class = "ExternalServiceError" -> {502}
      [] exc.class = "HTTPException" -> {exc.status_code}
      [] OTHER -> {500}

\* C15: every failure that leaves the stack is a response (never an
\* exception) whose body is the envelope {error: {message, code, details,
\* correlation_id}} and whose status is the one designated for the kind of
\* failure; a failure in the handler is never answered as a success.
C15_UniformEnvelope ==
    pipe.served =>
      /\ (pipe.handled.raised /\ "app" \in Ran(pipe.trace)) =>
            /\ Failed(pipe)
            /\ ~pipe.outcome.raised =>
                  pipe.outcome.response.status_code \in DesignatedStatus(pipe.handled.exc)
      /\ Failed(pipe) =>
            /\ ~pipe.outcome.raised
            /\ pipe.outcome.response.body.shape = "envelope"
            /\ pipe.outcome.response.body.code # ""

(***************************************************************************)
(* Internal error text                                                     *)
(***************************************************************************)
\* an unexpected error, or a failure of the database or of a collaborator
InternalFailure(exc) ==
    exc.class \in {"SQLAlchemyError", "Exception", "DatabaseError", "ExternalServiceError"}

\* sub occurs in seq as a run of consecutive parts
Contains(seq, sub) ==
    \E i \in 0..(Len(seq) - Len(sub)) : SubSeq(seq, i + 1, i + Len(sub)) = sub

\* the body shows the text, as its message or in one of its details
Mentions(body, text) ==
    \/ Contains(body.message, text)
    \/ \E dt \in body.details : Contains(dt.text, text)

\* the text of the error as raised by the failing operation
OriginalText(exc) ==
    IF exc.class = "ExternalServiceError"
    THEN SubSeq(exc.message, 3, Len(exc.message))
    ELSE exc.message

\* the failures that differ from exc in their internal text only
SameButText(exc) ==
    {h.exc : h \in {g \in HandlerResults :
                       /\ g.raised
                       /\ g.exc.class = exc.class
                       /\ [g.exc EXCEPT !.message = exc.message] = exc}}

\* one served request, judged for what its response shows of the error text
RedactionStep ==
    (/\ pipe'.served
     /\ pipe'.handled.raised
     /\ InternalFailure(pipe'.handled.exc)
     /\ "app" \in Ran(pipe'.trace)
     /\ ~pipe'.outcome.raised) =>
      LET exc  == pipe'.handled.exc
          body == pipe'.outcome.response.body
          Rerun(e) ==
              RunStack(pipe'.stack, 1,
                       [request |-> pipe'.request,
                        correlation_id |-> pipe'.correlation_id,
                        handled |-> Raised(e), env |-> environment, now |-> now],
                       "", request_counts).outcome
      IN  IF is_production(environment)
          THEN /\ ~Mentions(body, OriginalText(exc))
               /\ \A e \in SameButText(exc) :
                     /\ ~Rerun(e).raised
                     /\ Rerun(e).response.body = body
               /\ \E i \in DOMAIN pipe'.log :
                     Contains(pipe'.log[i].message, OriginalText(exc))
          ELSE Mentions(body, OriginalText(exc))

\* C16: when an internal failure (unexpected error, database or collaborator
\* failure) is answered with a response, then in production the body shows
\* none of the original text and is the same for every failure that differs
\* in its text only, while the log has the text; outside production the
\* body shows the text.
C16_ProductionRedaction == [][RedactionStep]_vars

(***************************************************************************)
(* Correlation id on responses                                             *)
(***************************************************************************)
\* the values a response carries under a header name
HeaderValues(response, name) == {h[2] : h \in {g \in response.headers : g[1] = name}}

\* C17: every response that leaves the stack carries the header
\* X-Correlation-ID with the id assigned to the request, and an error
\* envelope in it carries the same id.
C17_CorrelationEchoed ==
    (pipe.served /\ ~pipe.outcome.raised) =>
      LET response == pipe.outcome.response
      IN  /\ pipe.correlation_id # ""
          /\ HeaderValues(response, "X-Correlation-ID") = {pipe.correlation_id}
          /\ response.body.shape = "envelope" =>
                response.body.correlation_id = pipe.correlation_id

(***************************************************************************)
(* Request log events                                                      *)
(***************************************************************************)
\* the positions in a log of the events with one of the messages
EventsOf(log, messages) == {i \in DOMAIN log : log[i].message \in messages}

ClosingMessages == {<<"Request completed">>, <<"Request failed">>}

HardeningHeaders(env) ==
    {get_security_headers(env)[i] : i \in DOMAIN get_security_headers(env)}
      \cup {<<"Content-Security-Policy", get_csp_policy(env)>>}

\* C19: every response that leaves the stack carries each configured
\* hardening header; Strict-Transport-Security is present exactly in
\* production.
C19_HardeningHeadersOnEveryResponse ==
    (pipe.served /\ ~pipe.outcome.raised) =>
      /\ \A h \in HardeningHeaders(environment) :
            h[1] # "Strict-Transport-Security" =>
              HasHeader(pipe.outcome.response.headers, h[1])
      /\ HasHeader(pipe.outcome.response.headers, "Strict-Transport-Security")
            <=> is_production(environment)

\* the stages that set the hardening headers
SecurityHeaderStages == {"middleware.SecurityMiddleware", "security.SecurityMiddleware"}

\* C20: when the handler's response passes a SecurityHeaders stage, every
\* hardening header the handler had set on it leaves with the value the
\* handler gave it.
C20_HandlerHeadersKept ==
    (/\ pipe.served
     /\ Ran(pipe.trace) \cap SecurityHeaderStages # {}
     /\ "app" \in Ran(pipe.trace)
     /\ ~pipe.handled.raised
     /\ ~pipe.outcome.raised) =>
      \A h \in pipe.handled.response.headers :
        (\E g \in HardeningHeaders(environment) : g[1] = h[1]) =>
          HeaderValues(pipe.outcome.response, h[1]) = {h[2]}

(***************************************************************************)
(* Audit events                                                            *)
(***************************************************************************)
\* the requests that are security-relevant transitions
AuditedOps ==
    {"login", "register", "refresh", "change_password", "update_profile",
     "assign_role", "remove_role", "logout"}

\* the action name create_audit_log is called with, per endpoint of auth.py
AuditAction(op) ==
    CASE op = "login" -> "user_login"
      [] op = "register" -> "user_registered"
      [] op = "refresh" -> "token_refreshed"
      [] op = "logout" -> "user_logout"
      [] op = "change_password" -> "password_changed"
      [] op = "update_profile" -> "profile_updated"
      [] OTHER -> ""

\* C21: every security-relevant request that took effect (login,
\* registration, refresh, password change, profile update, role assignment,
\* role removal, logout) emitted exactly one audit event, which names the
\* action.
C21_TransitionsAudited ==
    (last.op \in AuditedOps /\ last.status \in {200, 201}) =>
      /\ Len(emitted) = 1
      /\ emitted[1].action # ""
      /\ AuditAction(last.op) # "" => emitted[1].action = AuditAction(last.op)

(***************************************************************************)
(* Properties of the account endpoints                                     *)
(***************************************************************************)
\* a registration body that is valid and names an unused username and email
ValidNewRegistration(request, accts) ==
    /\ FieldsValid(request.username, request.password)
    /\ ValidateRegistrationData(SanitizeInput(request.username),
                                SanitizeInput(request.email), request.password).is_valid
    /\ UserIdByUsername(SanitizeInput(request.username), accts) = NoneOpt
    /\ UserIdByEmail(SanitizeInput(request.email), accts) = NoneOpt

\* one registration request, judged for its result
RegistrationStep ==
    (last'.op = "register" /\ ValidNewRegistration(areq', accounts)) =>
      /\ last'.status = 201
      /\ \E id \in DOMAIN accounts' \ DOMAIN accounts :
            /\ accounts'[id].username = SanitizeInput(areq'.username)
            /\ id \in DOMAIN users'
      /\ \E access_token, refresh_token \in last'.minted :
            /\ access_token.type = "access"
            /\ refresh_token.type = "refresh"
            /\ VerifyToken(access_token, now).ok
            /\ VerifyToken(refresh_token, now).ok
            /\ GetCurrentUser(access_token, users', now).status = 200
      /\ areq'.expires_in = Minutes(ACCESS_TOKEN_EXPIRE_MINUTES)

\* C22: a registration with a valid, unused username and email and an
\* acceptable password is answered 201, creates the user and returns an
\* access and a refresh token that verify, with expires_in the access-token
\* lifetime in seconds; the access token is then accepted by
\* get_current_user.
C22_RegistrationSucceeds == [][RegistrationStep]_vars

(***************************************************************************)
(* Properties of the process start                                         *)
(***************************************************************************)
\* the deployment is a production one whose signing secret is unset or is the
\* placeholder default
BrokenProductionSecret(deployment) ==
    /\ ProductionDeployment(deployment)
    /\ ConfiguredSecret(deployment) \in {Unset, DEFAULT_SECRET_KEY}

\* C23: with a production configuration whose signing secret is unset or left
\* at the placeholder default, the process does not start and serves no request.
C23_ProductionNeedsSecret ==
    BrokenProductionSecret(proc.deployment) =>
        /\ proc.phase # "running"
        /\ ~pipe.served

(***************************************************************************)
(* Properties of password verification                                     *)
(***************************************************************************)
\* the last request was a login naming an account whose stored hash is malformed
LoginAgainstMalformedHash ==
    /\ last.op = "login"
    /\ FieldsValid(areq.username, areq.password)
    /\ LET found == UserIdByUsername(SanitizeInput(areq.username), accounts)
       IN  /\ found # NoneOpt
           /\ accounts[found[1]].hashed_password = MalformedHash

\* C24: verifying a password never raises, whatever the stored hash; it yields
\* false for a malformed hash, and a login against a malformed stored hash is
\* answered 401.
C24_VerifyNeverThrows ==
    /\ pwcall.done =>
          /\ ~pwcall.raised
          /\ pwcall.hashed_password = MalformedHash => ~pwcall.result
    /\ LoginAgainstMalformedHash => last.status = 401

(***************************************************************************)
(* Properties of the password strength analysis                            *)
(***************************************************************************)
\* C25: a password of the common-password dictionary, in any spelling of upper
\* and lower case, is given score 0, "too common" as the first feedback entry
\* and is not acceptable; "password" is reported as weak.
C25_CommonPasswordRejected ==
    (analysis.done /\ LowerCase(analysis.password) \in CommonPasswords) =>
        /\ analysis.result.score = 0
        /\ Len(analysis.result.feedback) >= 1
        /\ analysis.result.feedback[1] = "Password is too common"
        /\ ~analysis.result.is_acceptable
        /\ analysis.password = Chars("password") => analysis.result.strength = "weak"

C25_Witness ==
    /\ analysis.done
    /\ analysis.password \notin CommonPasswords
    /\ LowerCase(analysis.password) = <<"a", "d", "m", "i", "n">>
    /\ analysis.result.score = 0

(***************************************************************************)
(* Who can change an account's role                                        *)
(***************************************************************************)
\* the account holds the role named admin
HoldsAdminRole(id, us, rs) ==
    /\ us[id].role_id # NoneOpt
    /\ us[id].role_id[1] \in DOMAIN rs
    /\ rs[us[id].role_id[1]] = "admin"

\* the caller of a request, by the token presented, holds users:create or
\* users:update in the given stores
MayManageUsers(token, us, rs, utcnow) ==
    LET auth == GetCurrentUser(token, us, utcnow)
    IN  /\ auth.status = 200
        /\ GetUserPermissions(auth.user, rs) \cap {"users:create", "users:update"} # {}

\* a step in which the role_id of an account changes
RoleIdChanges == \E id \in DOMAIN users : users'[id].role_id # users[id].role_id

\* a step after which an account holds the admin role that did not before
AdminRoleGained ==
    \E id \in DOMAIN users :
        /\ HoldsAdminRole(id, users', roles')
        /\ ~HoldsAdminRole(id, users, roles)

RoleChangeStep ==
    (RoleIdChanges \/ AdminRoleGained) => MayManageUsers(last'.tok, users, roles, now)

\* C26: the role of an account changes, and an account comes to hold the admin
\* role, only by a request whose caller holds users:create or users:update.
C26_RoleChangesGuarded == [][RoleChangeStep]_vars

(***************************************************************************)
(* Authorization follows the user store                                    *)
(***************************************************************************)
\* the permissions of the role the store holds for the account now
StoredPermissions(id) ==
    GetUserPermissions([id |-> id, is_active |-> TRUE, role_id |-> users[id].role_id],
                       roles)

\* the token with another role_id claim
WithRoleClaim(token, role_id) == [token EXCEPT !.role_id = role_id]

\* C27: a guard admits an authenticated request exactly when the role the
\* user store holds for the account at that time carries the required
\* permissions, whatever the role_id claim of the token; /rbac/my-permissions
\* likewise reports the permissions of the stored role.
C27_DecisionsFollowStore ==
    /\ (last.op \in GuardKinds /\ last.status \in {200, 403}) =>
          /\ last.status = 200 <=>
                Satisfies(last.op, last.required, StoredPermissions(ParseInt(last.tok.sub)))
          /\ \A role_id \in {NoneOpt} \cup {Some(r) : r \in 1..MaxRoleId} :
                Guard(last.op, last.required, WithRoleClaim(last.tok, role_id),
                      users, roles, now).status = last.status
    /\ (last.op = "my_permissions" /\ last.status = 200) =>
          last.granted = StoredPermissions(ParseInt(last.tok.sub))

\* a request refused although the token, issued before the role was removed
\* or changed, still claims a role that carries the permission
C27_Witness ==
    /\ last.op = "require_permission"
    /\ last.status = 403
    /\ last.tok.role_id # users[ParseInt(last.tok.sub)].role_id
    /\ last.tok.role_id # NoneOpt
    /\ last.tok.role_id[1] \in DOMAIN roles
    /\ HasPermission(GetPermissionsForRole(roles[last.tok.role_id[1]]), last.required[1])

(***************************************************************************)
(* Rejections and the window                                               *)
(***************************************************************************)
\* a step in which the request on slot s is answered 429
Rejected(s) == rq'[s] # rq[s] /\ rq'[s].status = 429

\* the rejection leaves the entry of its key as it was, and a request from
\* that key retry_after seconds later is admitted
RejectionStep ==
    \A s \in Slots :
        Rejected(s) =>
            LET ip == rq'[s].ip
            IN  /\ ip \in DOMAIN request_counts
                /\ ip \in DOMAIN request_counts'
                /\ request_counts'[ip] = request_counts[ip]
                /\ RateLimitDecision(request_counts', ip, now + RETRY_AFTER).admitted

\* a key no request of which was admitted during the last retry_after
\* seconds is admitted, whatever was rejected meanwhile
QuietKeyAdmitted ==
    \A ip \in ClientIps :
        (\A i \in DOMAIN admitLog[ip] : admitLog[ip][i] <= now - RETRY_AFTER) =>
            RateLimitDecision(request_counts, ip, now).admitted

\* C28: a rejected request neither increments the counter of its key nor
\* restarts its window, so the key is admitted again once retry_after seconds
\* have passed without a request from it.
C28_RejectionKeepsWindow == [][RejectionStep /\ QuietKeyAdmitted']_vars

\* a key at its limit was answered 429, and its next request retry_after
\* seconds later would be admitted
C28_Witness ==
    \E s \in Slots :
        /\ rq[s].status = 429
        /\ rq[s].ip \in DOMAIN request_counts
        /\ request_counts[rq[s].ip].count = RATE_LIMIT_PER_MINUTE
        /\ ~RateLimitDecision(request_counts, rq[s].ip, now).admitted
        /\ RateLimitDecision(request_counts, rq[s].ip, now + RETRY_AFTER).admitted

(***************************************************************************)
(* Correlation ids of requests in flight together                          *)
(***************************************************************************)
\* the correlation ids a task has emitted so far: in its log events, in the
\* error envelope and in the X-Correlation-ID header of its response
EmittedIds(task) ==
    {task.log[i].correlation_id : i \in DOMAIN task.log}
      \cup (IF ~task.outcome.raised /\ task.outcome.response.body.shape = "envelope"
            THEN {task.outcome.response.body.correlation_id}
            ELSE {})
      \cup (IF task.outcome.raised
            THEN {}
            ELSE {h[2] : h \in {x \in task.outcome.response.headers :
                                   x[1] = "X-Correlation-ID"}})

\* C29: whatever the interleaving of the requests in flight, every correlation
\* id a request emits (log events, error envelope, X-Correlation-ID header) is
\* the id drawn for that request, and no two requests share an id.
C29_OwnCorrelationId ==
    \A t \in Tasks :
        /\ inflight.task[t].pc # "idle" =>
              /\ EmittedIds(inflight.task[t]) \subseteq {inflight.task[t].correlation_id}
              /\ get_correlation_id(cid_ctx, t) = inflight.task[t].correlation_id
              /\ \A u \in Tasks \ {t} :
                    inflight.task[t].correlation_id # inflight.task[u].correlation_id
        /\ inflight.task[t].pc = "responded" =>
              /\ <<"X-Correlation-ID", inflight.task[t].correlation_id>>
                    \in inflight.task[t].outcome.response.headers
              /\ Len(inflight.task[t].log) >= 2

\* two requests in flight together and both answered, one of them with an
\* error envelope
C29_Witness ==
    \E t \in Tasks, u \in Tasks :
        /\ t # u
        /\ inflight.task[t].pc = "responded"
        /\ inflight.task[u].pc = "responded"
        /\ inflight.task[t].outcome.response.body.shape = "envelope"
        /\ inflight.task[t].outcome.response.body.correlation_id
              = inflight.task[t].correlation_id
        /\ inflight.task[u].outcome.response.status_code = 200

(***************************************************************************)
(* What a login discloses                                                  *)
(***************************************************************************)
\* the account a login names, if there is one
NamedAccount(username) == UserIdByUsername(SanitizeInput(username), accounts)

\* the password is the one the stored hash of the account was made from
CorrectPassword(id, password) ==
    accounts[id].hashed_password.scheme = "bcrypt"
      /\ accounts[id].hashed_password.password = password

\* the last request was a login that named an account and gave a wrong password
LoginWithWrongPassword ==
    /\ last.op = "login"
    /\ FieldsValid(areq.username, areq.password)
    /\ NamedAccount(areq.username) # NoneOpt
    /\ ~CorrectPassword(NamedAccount(areq.username)[1], areq.password)

====
